---- MODULE Spec2Model ----
(***************************************************************************)
(* Verification model of the Gmail MCP server's message-body and           *)
(* attachment-text pipeline (src/main.go): the base64 content decoder,     *)
(* the recursive walkers over the message part tree, the body composition  *)
(* policy and the attachment text-extraction dispatch.                     *)
(*                                                                         *)
(* Text is modelled as a sequence: encoded payloads are sequences of       *)
(* one-character strings, decoded content is a sequence of byte values.    *)
(* A message part tree is kept flat, in document (depth-first pre-order)   *)
(* order, each part carrying its depth; the children of a part are the     *)
(* following parts one level deeper, up to the next part that is not       *)
(* deeper than the part itself.                                            *)
(***************************************************************************)
EXTENDS Integers, Sequences, FiniteSets, TLC

VARIABLES
    \* --- decodeEmailContent driver
    decData,        \* the encoded string handed to decodeEmailContent
    decOrigin,      \* how the input was produced: [alphabet, bytes] or "raw"
    decResult,      \* [err, val] returned, or NoResult before the call
    decBody,        \* [msg, convErr, out]: extractEmailBody on a message carrying decData
    \* --- extractEmailBody driver
    bodyMsg,        \* the gmail.Message handed to extractEmailBody
    bodyPc,         \* "ready" | "done"
    bodyOut,        \* the locals and the result of extractEmailBody after the call
    \* --- attachment walker driver
    attMsg,         \* the gmail.Message handed to the attachment walkers
    attMsg0,        \* the message as it was fetched (never assigned again)
    attPc,          \* "ready" | "listed" | "relisted" | "searched"
    attList,        \* result of the first extractAttachmentInfo
    attList2,       \* result of a second extractAttachmentInfo on the same message
    attRef,         \* the attachment id searched for
    attFound,       \* index of the part findAttachmentPart left in *result (0: nil)
    \* --- extractTextFromBytes driver
    exIn,           \* [data, mimeType, filename, descriptor]
    exPc,           \* "ready" | "done"
    exOut,          \* [text, err, via, used]
    \* --- extractDOCXText, statement by statement, several calls at a time
    dxCall,         \* per call: [pc, data, name, out, held]
    fsFiles,        \* the temporary files that exist: [name, owner, data]
    fsUnlinkOpen,   \* the platform removes a file that is still open (POSIX) or
                    \* refuses to (Windows)
    \* --- the mailbox behind the Gmail API
    gmDrafts,       \* the user's drafts, in the order Drafts.List returns them
    gmCalls,        \* the API calls made so far that fetch or change something
    \* --- FetchEmailBodies, one loop iteration at a time
    fbIds,          \* the threadIDs argument
    fbNext,         \* position of the next thread id (0: not called)
    fbSeen,         \* per thread id handled so far: what Threads.Get answered
    fbResults,      \* the results slice
    fbOut,          \* the tool result, or NoResult
    \* --- CreateDraft
    cdCount,        \* CreateDraft calls made so far
    cdLast,         \* the last call: [threadID, body, before, found, out]
    \* --- ExtractAttachmentByFilename
    fnIn,           \* [message, messageID, filename]: the mailbox's message and the arguments
    fnPc,           \* "ready" | "done"
    fnCalls,        \* attachment fetches and text extractions made by the call
    fnOut,          \* the tool result
    \* --- getToken: the cached token and the starts of the server
    tkFile,         \* token.json: "absent", "corrupt" or the token it holds
    tkValid,        \* the tokens the Gmail API accepts at present
    tkLog,          \* the getToken calls made so far, one record per call
    \* --- CreateDraft calls running side by side, one API round trip at a time
    ccCall,         \* per call: [pc, threadID, got]
    \* --- the HTTP server variant: globals, requests being handled, responses
    hsPc,           \* "boot" | "serving" ("idle": the variant is not running)
    gmailServer,    \* the global handle: NilServer or [token]
    gmailAuthReady, \* the global flag
    hsCb,           \* per /oauth2callback request: [pc, code, token, stored]
    hsLog,          \* the responses written so far, in order
    \* --- getTokenFromWeb: the flow, its callback server and its handlers
    owPc,           \* "waiting" | "gotCode" | "returned" ("idle": not called)
    owOut,          \* what the flow returned: [err, code]
    owServer,       \* the temporary server: "starting" | "failing" | "failed" |
                    \* "listening" | "shutdown"
    owHandler       \* per callback request: [pc, code]

decVars  == <<decData, decOrigin, decResult, decBody>>
bodyVars == <<bodyMsg, bodyPc, bodyOut>>
attVars  == <<attMsg, attMsg0, attPc, attList, attList2, attRef, attFound>>
exVars   == <<exIn, exPc, exOut>>
dxVars   == <<dxCall, fsFiles, fsUnlinkOpen>>
\* the variables of the server's operations on drafts, threads and files
gmVars   == <<gmDrafts, gmCalls>>
fbVars   == <<fbIds, fbNext, fbSeen, fbResults, fbOut>>
cdVars   == <<cdCount, cdLast>>
fnVars   == <<fnIn, fnPc, fnCalls, fnOut>>
svcVars  == <<dxVars, gmVars, fbVars, cdVars, fnVars>>
\* the variables of the server process: the token, calls running side by side
tkVars   == <<tkFile, tkValid, tkLog>>
ccVars   == <<ccCall>>
hsVars   == <<hsPc, gmailServer, gmailAuthReady, hsCb, hsLog>>
owVars   == <<owPc, owOut, owServer, owHandler>>
srvVars  == <<tkVars, ccVars, hsVars, owVars>>
vars     == <<decVars, bodyVars, attVars, exVars, svcVars, srvVars>>

NoResult == [none |-> TRUE]

(***************************************************************************)
(* Bounds of the model.                                                    *)
(***************************************************************************)
MaxBytes == 3       \* longest byte string encoded and decoded
MaxParts == 3       \* most parts below the top-level payload

Range(s) == {s[i] : i \in DOMAIN s}

(***************************************************************************)
(* encoding/base64: the two alphabets, '=' padding, non-strict decoding    *)
(* that skips CR and LF (the behaviour of base64.URLEncoding and           *)
(* base64.StdEncoding as the code uses them).                              *)
(***************************************************************************)
Alnum ==
    << "A","B","C","D","E","F","G","H","I","J","K","L","M",
       "N","O","P","Q","R","S","T","U","V","W","X","Y","Z",
       "a","b","c","d","e","f","g","h","i","j","k","l","m",
       "n","o","p","q","r","s","t","u","v","w","x","y","z",
       "0","1","2","3","4","5","6","7","8","9" >>

StdEncoding == Alnum \o << "+", "/" >>
URLEncoding == Alnum \o << "-", "_" >>

PadChar == "="

\* value of character c in alphabet enc (0..63); c must belong to it
CharValue(enc, c) == (CHOOSE i \in 1..Len(enc) : enc[i] = c) - 1

RECURSIVE EncodeToString(_, _)
EncodeToString(enc, b) ==
    IF Len(b) = 0 THEN << >>
    ELSE IF Len(b) = 1 THEN
        << enc[(b[1] \div 4) + 1], enc[((b[1] % 4) * 16) + 1], PadChar, PadChar >>
    ELSE IF Len(b) = 2 THEN
        << enc[(b[1] \div 4) + 1],
           enc[((b[1] % 4) * 16 + (b[2] \div 16)) + 1],
           enc[((b[2] % 16) * 4) + 1], PadChar >>
    ELSE
        << enc[(b[1] \div 4) + 1],
           enc[((b[1] % 4) * 16 + (b[2] \div 16)) + 1],
           enc[((b[2] % 16) * 4 + (b[3] \div 64)) + 1],
           enc[(b[3] % 64) + 1] >>
        \o EncodeToString(enc, SubSeq(b, 4, Len(b)))

StripNewlines(s) == SelectSeq(s, LAMBDA c : c \notin {"\n", "\r"})

\* bytes of a run of alphabet characters whose length is 0, 2 or 3 modulo 4
RECURSIVE DecodeQuanta(_, _)
DecodeQuanta(enc, t) ==
    IF Len(t) = 0 THEN << >>
    ELSE LET v1 == CharValue(enc, t[1])
             v2 == CharValue(enc, t[2])
         IN  IF Len(t) = 2 THEN << v1 * 4 + (v2 \div 16) >>
             ELSE LET v3 == CharValue(enc, t[3])
                  IN  IF Len(t) = 3
                      THEN << v1 * 4 + (v2 \div 16), (v2 % 16) * 16 + (v3 \div 4) >>
                      ELSE << v1 * 4 + (v2 \div 16),
                              (v2 % 16) * 16 + (v3 \div 4),
                              (v3 % 4) * 64 + CharValue(enc, t[4]) >>
                           \o DecodeQuanta(enc, SubSeq(t, 5, Len(t)))

\* the number of padding characters ending t (at most two)
PadCount(t) ==
    IF Len(t) >= 2 /\ t[Len(t)] = PadChar /\ t[Len(t) - 1] = PadChar THEN 2
    ELSE IF Len(t) >= 1 /\ t[Len(t)] = PadChar THEN 1 ELSE 0

\* decoding of body, the input without its pad padding characters
DecodeBody(enc, body, pad) ==
    IF /\ \A i \in 1..Len(body) : body[i] \in Range(enc)
       /\ \/ pad = 0 /\ Len(body) % 4 = 0
          \/ pad = 2 /\ Len(body) % 4 = 2
          \/ pad = 1 /\ Len(body) % 4 = 3
    THEN [err |-> FALSE, val |-> DecodeQuanta(enc, body)]
    ELSE [err |-> TRUE, val |-> << >>]

DecodePadded(enc, t, pad) == DecodeBody(enc, SubSeq(t, 1, Len(t) - pad), pad)

\* enc.DecodeString(s): [err |-> TRUE] on corrupt input, else the bytes
DecodeString(enc, s) == DecodePadded(enc, StripNewlines(s), PadCount(StripNewlines(s)))

(***************************************************************************)
(* decodeEmailContent: base64url first, standard base64 on failure.        *)
(***************************************************************************)
\* the same function without the second attempt
decodeEmailContent_NoFallback(data) ==
    LET url == DecodeString(URLEncoding, data)
    IN  IF url.err THEN [err |-> TRUE, val |-> << >>]
        ELSE [err |-> FALSE, val |-> url.val]

decodeEmailContent(data) ==
    LET url == DecodeString(URLEncoding, data)
    IN  IF url.err
        THEN LET std == DecodeString(StdEncoding, data)
             IN  IF std.err THEN [err |-> TRUE, val |-> << >>]
                 ELSE [err |-> FALSE, val |-> std.val]
        ELSE [err |-> FALSE, val |-> url.val]

(***************************************************************************)
(* gmail.Message and gmail.MessagePart.  A part is a record                *)
(*   [mimeType, filename, data, attachmentId, size, depth];                *)
(* data and attachmentId are the fields of part.Body (a nil Body reads as  *)
(* both empty).  A message is [payload, top, parts]: payload is FALSE for  *)
(* msg.Payload == nil, top is the top-level payload part (depth 0) and     *)
(* parts holds every part below it, in document order.                     *)
(***************************************************************************)
Indices(P) == [k \in 1..Len(P) |-> k]

\* msg.Payload.Parts: the parts directly below the top-level payload
TopParts(P) == SelectSeq(Indices(P), LAMBDA j : P[j].depth = 1)

\* part.Parts of the part at index i, in their original order
Children(P, i) ==
    SelectSeq(Indices(P),
              LAMBDA j : /\ j > i
                         /\ P[j].depth = P[i].depth + 1
                         /\ \A k \in (i + 1)..j : P[k].depth > P[i].depth)

NoText == << >>

(***************************************************************************)
(* extractFromParts: the loop over `parts`, with the two named results as  *)
(* accumulators.  L is the list being ranged over (indices into P) and k   *)
(* the position of the loop.                                               *)
(***************************************************************************)
\* the calls the walk makes, in the order it makes them: decodeEmailContent
\* on the payload of a part, extractFromParts on the children of a part
Decoded(i)    == [op |-> "decode",  part |-> i]
Descended(i)  == [op |-> "descend", part |-> i]

\* r with the calls made before it put in front of its own
After(calls, r) == [r EXCEPT !.trace = calls \o @]

\* the slot after the switch on part.MimeType
SlotAfterPart(slot, kind, part, hasData, decoded) ==
    IF hasData /\ part.mimeType = kind /\ slot = NoText THEN decoded ELSE slot

\* the slot after the nested call on the part's children
SlotAfterNested(slot, hasKids, nestedSlot) ==
    IF hasKids /\ slot = NoText /\ nestedSlot # NoText THEN nestedSlot ELSE slot

\* the same loop leaving the parts alone once both slots are filled
RECURSIVE extractFromPartsLoop_StopsWhenFilled(_, _, _, _, _)
extractFromPartsLoop_StopsWhenFilled(P, L, k, plainText, htmlText) ==
    IF k > Len(L) \/ (plainText # NoText /\ htmlText # NoText)
    THEN [plainText |-> plainText, htmlText |-> htmlText, trace |-> << >>]
    ELSE
      LET part    == P[L[k]]
          hasData == part.data # << >>
          dec     == decodeEmailContent(part.data)
      IN
      IF hasData /\ dec.err
      THEN After(<< Decoded(L[k]) >>,
                 extractFromPartsLoop_StopsWhenFilled(P, L, k + 1, plainText, htmlText))
      ELSE
        LET plain1 == SlotAfterPart(plainText, "text/plain", part, hasData, dec.val)
            html1  == SlotAfterPart(htmlText, "text/html", part, hasData, dec.val)
            kids   == IF plain1 # NoText /\ html1 # NoText THEN << >>
                      ELSE Children(P, L[k])
            nested == extractFromPartsLoop_StopsWhenFilled(P, kids, 1, NoText, NoText)
        IN After((IF hasData THEN << Decoded(L[k]) >> ELSE << >>)
                   \o (IF Len(kids) > 0 THEN << Descended(L[k]) >> \o nested.trace
                       ELSE << >>),
                 extractFromPartsLoop_StopsWhenFilled(P, L, k + 1,
                     SlotAfterNested(plain1, Len(kids) > 0, nested.plainText),
                     SlotAfterNested(html1, Len(kids) > 0, nested.htmlText)))

\* the loop of extractFromParts over the parts L of P from position k on,
\* with the two results so far: [plainText, htmlText] and the calls made
RECURSIVE extractFromPartsLoop(_, _, _, _, _)
extractFromPartsLoop(P, L, k, plainText, htmlText) ==
    IF k > Len(L)
    THEN [plainText |-> plainText, htmlText |-> htmlText, trace |-> << >>]
    ELSE
      LET part    == P[L[k]]
          hasData == part.data # << >>
          dec     == decodeEmailContent(part.data)
      IN
      IF hasData /\ dec.err
      THEN \* continue
           After(<< Decoded(L[k]) >>,
                 extractFromPartsLoop(P, L, k + 1, plainText, htmlText))
      ELSE
        LET plain1 == SlotAfterPart(plainText, "text/plain", part, hasData, dec.val)
            html1  == SlotAfterPart(htmlText, "text/html", part, hasData, dec.val)
            kids   == Children(P, L[k])
            nested == extractFromPartsLoop(P, kids, 1, NoText, NoText)
        IN After((IF hasData THEN << Decoded(L[k]) >> ELSE << >>)
                   \o (IF Len(kids) > 0 THEN << Descended(L[k]) >> \o nested.trace
                       ELSE << >>),
                 extractFromPartsLoop(P, L, k + 1,
                     SlotAfterNested(plain1, Len(kids) > 0, nested.plainText),
                     SlotAfterNested(html1, Len(kids) > 0, nested.htmlText)))

extractFromParts(P, L) == extractFromPartsLoop(P, L, 1, NoText, NoText)

(***************************************************************************)
(* extractTextAndLinksFromHTML.  htmltomarkdown.ConvertString is a library *)
(* call: its failure is chosen by the environment (convErr) and its output *)
(* is a rendering of the input that differs from it and carries leading    *)
(* and trailing white space.                                               *)
(***************************************************************************)
IsSpace(c) == c \in {9, 10, 11, 12, 13, 32}

RECURSIVE TrimLeft(_)
TrimLeft(s) == IF Len(s) > 0 /\ IsSpace(s[1]) THEN TrimLeft(Tail(s)) ELSE s

RECURSIVE TrimRight(_)
TrimRight(s) ==
    IF Len(s) > 0 /\ IsSpace(s[Len(s)]) THEN TrimRight(SubSeq(s, 1, Len(s) - 1)) ELSE s

\* strings.TrimSpace on a byte sequence
TrimSpace(s) == TrimRight(TrimLeft(s))

\* the markdown the library renders for htmlContent: "\n# " + html + " \n"
ConvertString(htmlContent) == << 10, 35, 32 >> \o htmlContent \o << 32, 10 >>

\* the same function returning the converted text as the library gives it
extractTextAndLinksFromHTML_NoTrim(htmlContent, convErr) ==
    IF convErr THEN htmlContent ELSE ConvertString(htmlContent)

extractTextAndLinksFromHTML(htmlContent, convErr) ==
    IF convErr THEN htmlContent ELSE TrimSpace(ConvertString(htmlContent))

(***************************************************************************)
(* extractEmailBody.  Returns the two locals with the result, so that the  *)
(* choice between top-level and nested content can be observed.            *)
(***************************************************************************)
NoBody ==
    [topPlain |-> NoText, topHtml |-> NoText, fromPlain |-> NoText,
     fromHtml |-> NoText, walk |-> << >>, plain |-> NoText, html |-> NoText,
     result |-> NoText]

\* the same function with the two assignments from the parts guarded the
\* other way round: nested content only fills a kind the top level left empty
extractEmailBody_TopLevelWins(msg, convErr) ==
    IF ~msg.payload THEN NoBody
    ELSE
      LET top       == msg.top
          hasData   == top.data # << >>
          dec       == decodeEmailContent(top.data)
          html0     == IF hasData /\ ~dec.err /\ top.mimeType = "text/html"
                       THEN dec.val ELSE NoText
          plain0    == IF hasData /\ ~dec.err /\ top.mimeType # "text/html"
                       THEN dec.val ELSE NoText
          hasParts  == Len(TopParts(msg.parts)) > 0
          fromParts == IF hasParts THEN extractFromParts(msg.parts, TopParts(msg.parts))
                       ELSE [plainText |-> NoText, htmlText |-> NoText, trace |-> << >>]
          plainTextContent == IF plain0 = NoText THEN fromParts.plainText ELSE plain0
          htmlContent      == IF html0 = NoText THEN fromParts.htmlText ELSE html0
      IN [topPlain  |-> plain0,
          topHtml   |-> html0,
          fromPlain |-> fromParts.plainText,
          fromHtml  |-> fromParts.htmlText,
          walk      |-> fromParts.trace,
          plain     |-> plainTextContent,
          html      |-> htmlContent,
          result    |-> IF htmlContent # NoText
                        THEN extractTextAndLinksFromHTML(htmlContent, convErr)
                        ELSE plainTextContent]

\* the same function handing the plain text to the normaliser as well
extractEmailBody_NormalisesPlain(msg, convErr) ==
    IF ~msg.payload THEN NoBody
    ELSE
      LET top       == msg.top
          hasData   == top.data # << >>
          dec       == decodeEmailContent(top.data)
          html0     == IF hasData /\ ~dec.err /\ top.mimeType = "text/html"
                       THEN dec.val ELSE NoText
          plain0    == IF hasData /\ ~dec.err /\ top.mimeType # "text/html"
                       THEN dec.val ELSE NoText
          hasParts  == Len(TopParts(msg.parts)) > 0
          fromParts == IF hasParts THEN extractFromParts(msg.parts, TopParts(msg.parts))
                       ELSE [plainText |-> NoText, htmlText |-> NoText, trace |-> << >>]
          plainTextContent == IF hasParts /\ fromParts.plainText # NoText
                              THEN fromParts.plainText ELSE plain0
          htmlContent      == IF hasParts /\ fromParts.htmlText # NoText
                              THEN fromParts.htmlText ELSE html0
      IN [topPlain  |-> plain0,
          topHtml   |-> html0,
          fromPlain |-> fromParts.plainText,
          fromHtml  |-> fromParts.htmlText,
          walk      |-> fromParts.trace,
          plain     |-> plainTextContent,
          html      |-> htmlContent,
          result    |-> IF htmlContent # NoText
                        THEN extractTextAndLinksFromHTML(htmlContent, convErr)
                        ELSE extractTextAndLinksFromHTML(plainTextContent, convErr)]

extractEmailBody(msg, convErr) ==
    IF ~msg.payload THEN NoBody
    ELSE
      LET top       == msg.top
          hasData   == top.data # << >>
          dec       == decodeEmailContent(top.data)
          \* htmlContent and plainTextContent after the direct body content
          html0     == IF hasData /\ ~dec.err /\ top.mimeType = "text/html"
                       THEN dec.val ELSE NoText
          plain0    == IF hasData /\ ~dec.err /\ top.mimeType # "text/html"
                       THEN dec.val ELSE NoText
          hasParts  == Len(TopParts(msg.parts)) > 0
          \* plainFromParts, htmlFromParts
          fromParts == IF hasParts THEN extractFromParts(msg.parts, TopParts(msg.parts))
                       ELSE [plainText |-> NoText, htmlText |-> NoText, trace |-> << >>]
          plainTextContent == IF hasParts /\ fromParts.plainText # NoText
                              THEN fromParts.plainText ELSE plain0
          htmlContent      == IF hasParts /\ fromParts.htmlText # NoText
                              THEN fromParts.htmlText ELSE html0
      IN [topPlain  |-> plain0,
          topHtml   |-> html0,
          fromPlain |-> fromParts.plainText,
          fromHtml  |-> fromParts.htmlText,
          walk      |-> fromParts.trace,
          plain     |-> plainTextContent,
          html      |-> htmlContent,
          result    |-> IF htmlContent # NoText
                        THEN extractTextAndLinksFromHTML(htmlContent, convErr)
                        ELSE plainTextContent]

(***************************************************************************)
(* Strings are byte sequences.  strings.ToLower and strings.HasSuffix on   *)
(* ASCII file names.                                                       *)
(***************************************************************************)
ToLowerByte(c) == IF c >= 65 /\ c <= 90 THEN c + 32 ELSE c

ToLower(s) == [i \in DOMAIN s |-> ToLowerByte(s[i])]

HasSuffix(s, suffix) ==
    /\ Len(s) >= Len(suffix)
    /\ SubSeq(s, Len(s) - Len(suffix) + 1, Len(s)) = suffix

DotPdf  == << 46, 112, 100, 102 >>            \* ".pdf"
DotDocx == << 46, 100, 111, 99, 120 >>       \* ".docx"
DotTxt  == << 46, 116, 120, 116 >>            \* ".txt"

\* "unnamed_attachment"
UnnamedAttachment ==
    << 117, 110, 110, 97, 109, 101, 100, 95, 97, 116, 116, 97, 99, 104, 109, 101, 110, 116 >>

MimePdf  == "application/pdf"
MimeDocx == "application/vnd.openxmlformats-officedocument.wordprocessingml.document"
MimeText == "text/plain"

(***************************************************************************)
(* isExtractableDocument                                                   *)
(***************************************************************************)
\* the same test without the .txt suffix
isExtractableDocument_NoTxtSuffix(mimeType, filename) ==
    IF mimeType \in {MimePdf, MimeDocx, MimeText} THEN TRUE
    ELSE LET lowerFilename == ToLower(filename)
         IN  \/ HasSuffix(lowerFilename, DotPdf)
             \/ HasSuffix(lowerFilename, DotDocx)

isExtractableDocument(mimeType, filename) ==
    IF mimeType \in {MimePdf, MimeDocx, MimeText} THEN TRUE
    ELSE LET lowerFilename == ToLower(filename)
         IN  \/ HasSuffix(lowerFilename, DotPdf)
             \/ HasSuffix(lowerFilename, DotDocx)
             \/ HasSuffix(lowerFilename, DotTxt)

(***************************************************************************)
(* extractAttachmentsFromParts: the loop over `parts` appending to         *)
(* *attachments; extractAttachmentInfo starts it on msg.Payload.Parts.     *)
(* A descriptor without the "extractable" key reads extractable = FALSE.   *)
(***************************************************************************)
AttachmentOf(part) ==
    LET filename == IF part.filename = << >> THEN UnnamedAttachment ELSE part.filename
    IN  [attachmentId |-> part.attachmentId,
         filename     |-> filename,
         mimeType     |-> part.mimeType,
         size         |-> part.size,
         extractable  |-> isExtractableDocument(part.mimeType, filename)]

\* the same walk appending a part after the parts nested in it
RECURSIVE extractAttachmentsFromParts_ChildrenFirst(_, _, _, _)
extractAttachmentsFromParts_ChildrenFirst(P, L, k, attachments) ==
    IF k > Len(L) THEN attachments
    ELSE
      LET part == P[L[k]]
          kids == Children(P, L[k])
          att1 == IF Len(kids) > 0
                  THEN extractAttachmentsFromParts_ChildrenFirst(P, kids, 1, attachments)
                  ELSE attachments
          att2 == IF part.attachmentId # ""
                  THEN Append(att1, AttachmentOf(part)) ELSE att1
      IN extractAttachmentsFromParts_ChildrenFirst(P, L, k + 1, att2)

RECURSIVE extractAttachmentsFromParts(_, _, _, _)
extractAttachmentsFromParts(P, L, k, attachments) ==
    IF k > Len(L) THEN attachments
    ELSE
      LET part == P[L[k]]
          att1 == IF part.attachmentId # ""
                  THEN Append(attachments, AttachmentOf(part)) ELSE attachments
          kids == Children(P, L[k])
          att2 == IF Len(kids) > 0
                  THEN extractAttachmentsFromParts(P, kids, 1, att1) ELSE att1
      IN extractAttachmentsFromParts(P, L, k + 1, att2)

extractAttachmentInfo(message) ==
    IF ~message.payload THEN << >>
    ELSE extractAttachmentsFromParts(message.parts, TopParts(message.parts), 1, << >>)

(***************************************************************************)
(* findAttachmentPart: result is the part *result points at (NilPart for   *)
(* nil), handed in and returned.  A match returns at once; after the       *)
(* recursive call the loop goes on with the next part.                     *)
(***************************************************************************)
NilPart == 0

RECURSIVE findAttachmentPart(_, _, _, _, _)
findAttachmentPart(P, L, k, attachmentID, result) ==
    IF k > Len(L) THEN result
    ELSE
      LET part == P[L[k]]
          kids == Children(P, L[k])
      IN IF part.attachmentId = attachmentID
         THEN L[k]
         ELSE findAttachmentPart(P, L, k + 1, attachmentID,
                 IF Len(kids) > 0
                 THEN findAttachmentPart(P, kids, 1, attachmentID, result)
                 ELSE result)

(***************************************************************************)
(* extractPDFText.  The PDF library is the environment: lib says whether   *)
(* pdf.NewReader fails, how many pages the document has and, for each      *)
(* page, whether it is null, fails in GetPlainText or yields a text.  The  *)
(* outcomes of the first pages are listed in lib.pages; every further page *)
(* has the outcome lib.rest.  An error is the empty string for nil.        *)
(***************************************************************************)
PdfPageCap == 50

NoError == ""

PageNull == [kind |-> "null", text |-> << >>]
PageFail == [kind |-> "err",  text |-> << >>]
PageText(t) == [kind |-> "text", text |-> t]

PageAt(lib, i) == IF i \in DOMAIN lib.pages THEN lib.pages[i] ELSE lib.rest

RECURSIVE Digits(_)
Digits(n) == IF n < 10 THEN << 48 + n >> ELSE Digits(n \div 10) \o << 48 + (n % 10) >>

\* "\n\n[Note: PDF has "
NoticeHead ==
    << 10, 10, 91, 78, 111, 116, 101, 58, 32, 80, 68, 70, 32, 104, 97, 115,
       32 >>

\* " pages total, but only first 50 pages were processed for safety]"
NoticeTail ==
    << 32, 112, 97, 103, 101, 115, 32, 116, 111, 116, 97, 108, 44, 32, 98, 117,
       116, 32, 111, 110, 108, 121, 32, 102, 105, 114, 115, 116, 32, 53, 48, 32,
       112, 97, 103, 101, 115, 32, 119, 101, 114, 101, 32, 112, 114, 111, 99, 101,
       115, 115, 101, 100, 32, 102, 111, 114, 32, 115, 97, 102, 101, 116, 121, 93 >>

TruncationNotice(numPages) == NoticeHead \o Digits(numPages) \o NoticeTail

\* what the loop body writes to the builder for page i
PageContribution(lib, i) ==
    LET page == PageAt(lib, i)
    IN  IF page.kind \in {"null", "err"} THEN << >>       \* continue
        ELSE page.text \o << 10, 10 >>

\* the builder after the loop over the pages lo..hi, in page order (the
\* range is halved so that the evaluation stays shallow)
RECURSIVE pdfPagesLoop(_, _, _)
pdfPagesLoop(lib, lo, hi) ==
    IF lo > hi THEN << >>
    ELSE IF lo = hi THEN PageContribution(lib, lo)
    ELSE LET mid == (lo + hi) \div 2
         IN  pdfPagesLoop(lib, lo, mid) \o pdfPagesLoop(lib, mid + 1, hi)

\* the same function with the page limit left out of the loop bound
extractPDFText_NoPageLimit(data, lib) ==
    IF lib.openErr THEN [text |-> << >>, err |-> "failed to open PDF"]
    ELSE
      LET numPages      == lib.numPages
          extractedText == pdfPagesLoop(lib, 1, numPages)
      IN IF Len(extractedText) = 0
         THEN [text |-> << >>, err |-> "no text could be extracted from PDF"]
         ELSE [text |-> IF numPages > PdfPageCap
                        THEN extractedText \o TruncationNotice(numPages)
                        ELSE extractedText,
               err  |-> NoError]

extractPDFText(data, lib) ==
    IF lib.openErr THEN [text |-> << >>, err |-> "failed to open PDF"]
    ELSE
      LET numPages      == lib.numPages
          maxPages      == IF numPages > PdfPageCap THEN PdfPageCap ELSE numPages
          extractedText == pdfPagesLoop(lib, 1, maxPages)
      IN IF Len(extractedText) = 0
         THEN [text |-> << >>, err |-> "no text could be extracted from PDF"]
         ELSE [text |-> IF numPages > PdfPageCap
                        THEN extractedText \o TruncationNotice(numPages)
                        ELSE extractedText,
               err  |-> NoError]

(***************************************************************************)
(* extractDOCXText and extractTextFromXML.  The file system and the docx   *)
(* library are the environment: lib says whether os.CreateTemp, the write  *)
(* or docx.ReadDocxFile fails and what GetContent returns.  The content is *)
(* given as the token stream xml.Decoder reads from it, each token with    *)
(* the bytes it stands for (src): the content itself is their              *)
(* concatenation.  A token of kind "error" is where Token() fails.         *)
(***************************************************************************)
WordprocessingML == "http://schemas.openxmlformats.org/wordprocessingml/2006/main"

StartElement(space, local, src) ==
    [kind |-> "start", space |-> space, local |-> local, src |-> src]
EndElement(space, local, src) ==
    [kind |-> "end", space |-> space, local |-> local, src |-> src]
CharData(text) ==
    [kind |-> "chars", space |-> "", local |-> "", src |-> text]
SyntaxError(src) ==
    [kind |-> "error", space |-> "", local |-> "", src |-> src]

RECURSIVE RawContent(_)
RawContent(tokens) ==
    IF tokens = << >> THEN << >> ELSE Head(tokens).src \o RawContent(Tail(tokens))

\* strings.Fields followed by strings.Join(words, " ")
RECURSIVE JoinFields(_, _)
JoinFields(s, pending) ==
    \* pending: a word has been written and white space was seen since
    IF s = << >> THEN << >>
    ELSE IF IsSpace(Head(s)) THEN JoinFields(Tail(s), pending)
    ELSE LET n    == CHOOSE k \in 1..Len(s) :
                        /\ \A j \in 1..k : ~IsSpace(s[j])
                        /\ k = Len(s) \/ IsSpace(s[k + 1])
             word == SubSeq(s, 1, n)
             rest == JoinFields(SubSeq(s, n + 1, Len(s)), TRUE)
         IN  (IF pending THEN << 32 >> ELSE << >>) \o word \o rest

\* the token loop: textParts joined by " " so far (first: nothing appended yet)
RECURSIVE xmlTokenLoop(_, _, _, _, _)
xmlTokenLoop(tokens, k, insideTextElement, joined, first) ==
    IF k > Len(tokens) \/ tokens[k].kind = "error" THEN joined
    ELSE
      LET t      == tokens[k]
          isText == t.local = "t" /\ t.space = WordprocessingML
      IN CASE t.kind = "start" ->
                xmlTokenLoop(tokens, k + 1, IF isText THEN TRUE ELSE insideTextElement,
                             joined, first)
           [] t.kind = "end" ->
                xmlTokenLoop(tokens, k + 1, IF isText THEN FALSE ELSE insideTextElement,
                             joined, first)
           [] t.kind = "chars" ->
                LET text == TrimSpace(t.src)
                IN  IF insideTextElement /\ text # << >>
                    THEN xmlTokenLoop(tokens, k + 1, insideTextElement,
                                      (IF first THEN text ELSE joined \o << 32 >> \o text),
                                      FALSE)
                    ELSE xmlTokenLoop(tokens, k + 1, insideTextElement, joined, first)

\* the same function without the final strings.Fields / strings.Join
extractTextFromXML_NoFields(tokens) ==
    xmlTokenLoop(tokens, 1, FALSE, << >>, TRUE)

extractTextFromXML(tokens) ==
    JoinFields(xmlTokenLoop(tokens, 1, FALSE, << >>, TRUE), FALSE)

\* strings.HasPrefix(strings.TrimSpace(rawContent), "<?xml") || ... "<")
LooksLikeXML(rawContent) ==
    LET trimmed == TrimSpace(rawContent)
    IN  Len(trimmed) > 0 /\ trimmed[1] = 60

\* the same function returning the stripped text of XML-shaped content even
\* when it is empty
extractDOCXText_NoRawFallback(data, lib) ==
    IF lib.createErr THEN [text |-> << >>, err |-> "failed to create temp file"]
    ELSE IF lib.writeErr THEN [text |-> << >>, err |-> "failed to write temp file"]
    ELSE IF lib.readErr THEN [text |-> << >>, err |-> "failed to open DOCX"]
    ELSE
      LET rawContent == RawContent(lib.content)
      IN IF Len(rawContent) = 0
         THEN [text |-> << >>, err |-> "no text could be extracted from DOCX"]
         ELSE IF LooksLikeXML(rawContent)
              THEN [text |-> extractTextFromXML(lib.content), err |-> NoError]
              ELSE [text |-> rawContent, err |-> NoError]

extractDOCXText(data, lib) ==
    IF lib.createErr THEN [text |-> << >>, err |-> "failed to create temp file"]
    ELSE IF lib.writeErr THEN [text |-> << >>, err |-> "failed to write temp file"]
    ELSE IF lib.readErr THEN [text |-> << >>, err |-> "failed to open DOCX"]
    ELSE
      LET rawContent == RawContent(lib.content)
      IN IF Len(rawContent) = 0
         THEN [text |-> << >>, err |-> "no text could be extracted from DOCX"]
         ELSE IF LooksLikeXML(rawContent) /\ Len(extractTextFromXML(lib.content)) > 0
              THEN [text |-> extractTextFromXML(lib.content), err |-> NoError]
              ELSE [text |-> rawContent, err |-> NoError]

(***************************************************************************)
(* extractTextFromBytes.  via names the extractor the call went to         *)
(* ("none" when it returned the unsupported-type error itself).            *)
(***************************************************************************)
Via(name, r) == [text |-> r.text, err |-> r.err, via |-> name]

Unsupported == [text |-> << >>, err |-> "unsupported file type", via |-> "none"]

\* the same dispatch looking at the file name before the MIME type
extractTextFromBytes_FilenameFirst(data, mimeType, filename, lib) ==
    LET lowerFilename == ToLower(filename)
    IN  IF HasSuffix(lowerFilename, DotPdf) THEN Via("pdf", extractPDFText(data, lib.pdf))
        ELSE IF HasSuffix(lowerFilename, DotDocx)
             THEN Via("docx", extractDOCXText(data, lib.docx))
        ELSE IF HasSuffix(lowerFilename, DotTxt)
             THEN Via("plain", [text |-> data, err |-> NoError])
        ELSE CASE mimeType = MimePdf  -> Via("pdf", extractPDFText(data, lib.pdf))
               [] mimeType = MimeDocx -> Via("docx", extractDOCXText(data, lib.docx))
               [] mimeType = MimeText -> Via("plain", [text |-> data, err |-> NoError])
               [] OTHER -> Unsupported

\* the same dispatch without the ".txt" fallback
extractTextFromBytes_NoTxtSuffix(data, mimeType, filename, lib) ==
    CASE mimeType = MimePdf  -> Via("pdf", extractPDFText(data, lib.pdf))
      [] mimeType = MimeDocx -> Via("docx", extractDOCXText(data, lib.docx))
      [] mimeType = MimeText -> Via("plain", [text |-> data, err |-> NoError])
      [] OTHER ->
           LET lowerFilename == ToLower(filename)
           IN  IF HasSuffix(lowerFilename, DotPdf)
               THEN Via("pdf", extractPDFText(data, lib.pdf))
               ELSE IF HasSuffix(lowerFilename, DotDocx)
               THEN Via("docx", extractDOCXText(data, lib.docx))
               ELSE Unsupported

extractTextFromBytes(data, mimeType, filename, lib) ==
    CASE mimeType = MimePdf  -> Via("pdf", extractPDFText(data, lib.pdf))
      [] mimeType = MimeDocx -> Via("docx", extractDOCXText(data, lib.docx))
      [] mimeType = MimeText -> Via("plain", [text |-> data, err |-> NoError])
      [] OTHER ->
           LET lowerFilename == ToLower(filename)
           IN  IF HasSuffix(lowerFilename, DotPdf)
               THEN Via("pdf", extractPDFText(data, lib.pdf))
               ELSE IF HasSuffix(lowerFilename, DotDocx)
               THEN Via("docx", extractDOCXText(data, lib.docx))
               ELSE IF HasSuffix(lowerFilename, DotTxt)
               THEN Via("plain", [text |-> data, err |-> NoError])
               ELSE Unsupported

(***************************************************************************)
(* Inputs: messages                                                        *)
(***************************************************************************)
\* depth sequences of the forests of n parts, in pre-order
Shapes(n) ==
    {d \in [1..n -> 1..n] :
        /\ n > 0 => d[1] = 1
        /\ \A i \in 1..(n - 1) : d[i + 1] <= d[i] + 1}

\* inline payloads: absent, not base64 in either alphabet, a payload that
\* decodes to no bytes, and the base64url encoding of " " followed by a
\* letter that differs from part to part (i is the part's position)
Content(i) == << 32, 97 + i >>

Payload(kind, i) ==
    CASE kind = "none"  -> << >>
      [] kind = "bad"   -> << "!" >>
      [] kind = "blank" -> << "\n" >>
      [] kind = "good"  -> EncodeToString(URLEncoding, Content(i))

BodyPart(mime, kind, depth, i) ==
    [mimeType |-> mime, filename |-> << >>, data |-> Payload(kind, i),
     attachmentId |-> "", size |-> 0, depth |-> depth]

NilPayloadMessage ==
    [payload |-> FALSE, top |-> BodyPart("", "none", 0, 0), parts |-> << >>]

\* what a part below the top level may be: a container, with no payload, an
\* undecodable one or a decodable one; a text part; an HTML part; a text
\* part whose payload decodes to nothing
BodyPartOptions ==
    { [mime |-> "multipart/alternative", kind |-> "none"],
      [mime |-> "multipart/alternative", kind |-> "bad"],
      [mime |-> "multipart/alternative", kind |-> "good"],
      [mime |-> "text/plain",            kind |-> "good"],
      [mime |-> "text/html",             kind |-> "good"],
      [mime |-> "text/plain",            kind |-> "blank"] }

\* what the top-level payload may be
BodyTopOptions ==
    { [mime |-> "multipart/alternative", kind |-> "none"],
      [mime |-> "application/pdf",       kind |-> "good"],
      [mime |-> "text/plain",            kind |-> "good"],
      [mime |-> "text/html",             kind |-> "good"],
      [mime |-> "text/html",             kind |-> "bad"] }

BodyMessage(a0, d, a) ==
    [payload |-> TRUE,
     top     |-> BodyPart(a0.mime, a0.kind, 0, 0),
     parts   |-> [i \in DOMAIN d |-> BodyPart(a[i].mime, a[i].kind, d[i], i)]]

\* what a part of a message with attachments may be: a container, or an
\* attachment (two share the reference a1, two share the file name r.pdf,
\* one has no file name); its size is its position in the message
RPdf == << 114, 46, 112, 100, 102 >>        \* "r.pdf"

AttPartOptions ==
    { [attachmentId |-> "",   mimeType |-> "multipart/mixed",          filename |-> << >>],
      [attachmentId |-> "a1", mimeType |-> "application/pdf",          filename |-> RPdf],
      [attachmentId |-> "a2", mimeType |-> "application/octet-stream", filename |-> RPdf],
      [attachmentId |-> "a1", mimeType |-> "image/png",                filename |-> << >>] }

AttPart(a, depth, i) ==
    [mimeType |-> a.mimeType, filename |-> a.filename, data |-> << >>,
     attachmentId |-> a.attachmentId, size |-> i, depth |-> depth]

AttMessage(a0, d, a) ==
    [payload |-> TRUE,
     top     |-> AttPart(a0, 0, 0),
     parts   |-> [i \in DOMAIN d |-> AttPart(a[i], d[i], i)]]

\* attachment ids asked for; a3 is in no message
AttachmentRefs == {"a1", "a2", "a3"}

\* attachment bytes, declared kinds and file names handed to extractTextFromBytes
ExData == { << >>, << 104, 105 >> }      \* no bytes, "hi"

ExMimeTypes ==
    { MimePdf, MimeDocx, MimeText, "application/octet-stream", "image/png", "" }

ExFilenames ==
    { << >>,
      << 114, 101, 112, 111, 114, 116, 46, 80, 68, 70 >>,     \* "report.PDF"
      << 120, 46, 112, 100, 102 >>,                          \* "x.pdf"
      << 97, 46, 68, 111, 99, 120 >>,                       \* "a.Docx"
      << 110, 111, 116, 101, 115, 46, 116, 120, 116 >>,     \* "notes.txt"
      << 105, 109, 103, 46, 112, 110, 103 >>,                \* "img.png"
      << 112, 100, 102 >> }                                  \* "pdf"

\* behaviours of the PDF library: a reader that cannot be opened, documents
\* of up to MaxPages pages with every outcome per page, and documents longer
\* than the page cap whose pages all have the same outcome
MaxPages == 2

PageOutcomes == { PageNull, PageFail, PageText(<< >>), PageText(<< 84 >>) }

\* the text of page i of a document whose pages are all different: one byte
\* that occurs in no other page and not in the truncation notice
PageMark(i) == << 128 + i >>

\* a document of n pages, page i reading PageMark(i), except the pages in
\* nulls (null pages) and in fails (GetPlainText fails)
MarkedDocument(n, nulls, fails) ==
    [openErr |-> FALSE, numPages |-> n,
     pages |-> [i \in 1..n |-> IF i \in nulls THEN PageNull
                               ELSE IF i \in fails THEN PageFail
                               ELSE PageText(PageMark(i))],
     rest |-> PageNull]

\* documents around the page limit: just below it, at it, just above it and
\* well above it, with every page readable, with unreadable pages among the
\* readable ones, and with no readable page within the limit
LongDocuments ==
    { MarkedDocument(n, {}, {}) :
        n \in {PdfPageCap - 1, PdfPageCap, PdfPageCap + 1, PdfPageCap + 10} }
    \cup { MarkedDocument(n, {1}, {2, PdfPageCap}) : n \in {PdfPageCap, PdfPageCap + 10} }
    \cup { MarkedDocument(PdfPageCap + 10, 1..PdfPageCap, {}) }

PdfLibs ==
    { [openErr |-> TRUE, numPages |-> 0, pages |-> << >>, rest |-> PageNull] }
    \cup UNION { { [openErr |-> FALSE, numPages |-> n, pages |-> p, rest |-> PageNull] :
                     p \in [1..n -> PageOutcomes] } : n \in 0..MaxPages }
    \cup { [openErr |-> FALSE, numPages |-> n, pages |-> << >>, rest |-> r] :
             n \in {PdfPageCap + 1, PdfPageCap + 10}, r \in PageOutcomes }
    \cup LongDocuments

\* contents of the DOCX package as GetContent returns them
WT  == << 60, 119, 58, 116, 62 >>                \* "<w:t>"
WTE == << 60, 47, 119, 58, 116, 62 >>            \* "</w:t>"

\* "<w:p xmlns:w=\"http://schemas.openxmlformats.org/wordprocessingml/2006/main\">"
WPDecl ==
    << 60, 119, 58, 112, 32, 120, 109, 108, 110, 115, 58, 119, 61, 34, 104, 116,
       116, 112, 58, 47, 47, 115, 99, 104, 101, 109, 97, 115, 46, 111, 112, 101,
       110, 120, 109, 108, 102, 111, 114, 109, 97, 116, 115, 46, 111, 114, 103, 47,
       119, 111, 114, 100, 112, 114, 111, 99, 101, 115, 115, 105, 110, 103, 109, 108,
       47, 50, 48, 48, 54, 47, 109, 97, 105, 110, 34, 62 >>

WPE == << 60, 47, 119, 58, 112, 62 >>            \* "</w:p>"

Hello == << 72, 101, 108, 108, 111 >>
World == << 87, 111, 114, 108, 100 >>

\* <w:t>Hello</w:t><w:t>World</w:t>: the prefix w is bound to no name space,
\* and xml.Decoder then reports the prefix itself as Name.Space
UnboundRuns ==
    << StartElement("w", "t", WT), CharData(Hello), EndElement("w", "t", WTE),
       StartElement("w", "t", WT), CharData(World), EndElement("w", "t", WTE) >>

\* <w:p xmlns:w="..."><w:t>Hello</w:t><w:t>World</w:t></w:p>
BoundRuns ==
    << StartElement(WordprocessingML, "p", WPDecl),
       StartElement(WordprocessingML, "t", WT), CharData(Hello),
       EndElement(WordprocessingML, "t", WTE),
       StartElement(WordprocessingML, "t", WT), CharData(World),
       EndElement(WordprocessingML, "t", WTE),
       EndElement(WordprocessingML, "p", WPE) >>

\* <w:p xmlns:w="..."><w:t>Hello</w:t>x<<w:t>: Token() fails at "<<"
BrokenRuns ==
    << StartElement(WordprocessingML, "p", WPDecl),
       StartElement(WordprocessingML, "t", WT), CharData(Hello),
       EndElement(WordprocessingML, "t", WTE),
       CharData(<< 120 >>),
       SyntaxError(<< 60, 60, 119, 58, 116, 62 >>) >>

DocxContents ==
    { UnboundRuns, BoundRuns, BrokenRuns,
      << >>,
      \* "hi there": not XML-shaped
      << CharData(<< 104, 105, 32, 116, 104, 101, 114, 101 >>) >>,
      \* <w:p xmlns:w="..."><w:t> Hello </w:t>\n<w:t>big  World</w:t>tail</w:p>
      << StartElement(WordprocessingML, "p", WPDecl),
         StartElement(WordprocessingML, "t", WT),
         CharData(<< 32, 72, 101, 108, 108, 111, 32 >>),
         EndElement(WordprocessingML, "t", WTE),
         CharData(<< 10 >>),
         StartElement(WordprocessingML, "t", WT),
         CharData(<< 98, 105, 103, 32, 32, 87, 111, 114, 108, 100 >>),
         EndElement(WordprocessingML, "t", WTE),
         CharData(<< 116, 97, 105, 108 >>),
         EndElement(WordprocessingML, "p", WPE) >>,
      \* <a>x</a>: XML-shaped, no text run
      << StartElement("", "a", << 60, 97, 62 >>),
         CharData(<< 120 >>),
         EndElement("", "a", << 60, 47, 97, 62 >>) >> }

DocxLibs ==
    { [createErr |-> TRUE,  writeErr |-> FALSE, readErr |-> FALSE, content |-> << >>],
      [createErr |-> FALSE, writeErr |-> TRUE,  readErr |-> FALSE, content |-> << >>],
      [createErr |-> FALSE, writeErr |-> FALSE, readErr |-> TRUE,  content |-> << >>] }
    \cup { [createErr |-> FALSE, writeErr |-> FALSE, readErr |-> FALSE, content |-> c] :
             c \in DocxContents }

\* extractDOCXText calls in progress at a time
MaxCalls == 2

Calls == 1..MaxCalls

\* names os.CreateTemp can give out (one more than there can be files)
TempNames == 1..(MaxCalls + 1)

NoName == 0

\* attachment bytes handed to extractDOCXText: not a zip archive, a package
\* with empty content, a package with text runs
DocxPackages ==
    { [zip |-> FALSE, content |-> << >>],
      [zip |-> TRUE,  content |-> << >>],
      [zip |-> TRUE,  content |-> BoundRuns] }

\* a file as os.CreateTemp leaves it
EmptyFile == [zip |-> FALSE, content |-> << >>]

\* byte strings handed to the encoder
DecodeByteValues == {0, 251, 255}

ByteStrings ==
    UNION {[1..n -> DecodeByteValues] : n \in 0..MaxBytes}

\* payloads that were not produced by an encoder: a character of neither
\* alphabet, a lone character, misplaced padding, characters of both
\* alphabets mixed, a bare line break, a broken line
RawStrings ==
    { << "!" >>, << "A" >>, << "A", "=" >>, << "=" >>, << "+", "-", "8", "=" >>,
      << "\n" >>, << "A", "A", "\n", "=", "=" >>, << "A", "A", "=", "=", "A" >> }

\* where the payload sits in the message: on the top-level payload of a
\* message without parts; on a part that has a sibling; on a part that has
\* a child
DataPlaces == {"top", "sibling", "parent"}

DataMimeTypes == {"text/plain", "text/html", "multipart/alternative"}

DataPart(mime, data, depth) ==
    [mimeType |-> mime, filename |-> << >>, data |-> data,
     attachmentId |-> "", size |-> 0, depth |-> depth]

DataMessage(place, mime, data) ==
    CASE place = "top" ->
           [payload |-> TRUE, top |-> DataPart(mime, data, 0), parts |-> << >>]
      [] place = "sibling" ->
           [payload |-> TRUE, top |-> BodyPart("multipart/mixed", "none", 0, 0),
            parts |-> << DataPart(mime, data, 1), BodyPart("text/plain", "good", 1, 2) >>]
      [] place = "parent" ->
           [payload |-> TRUE, top |-> BodyPart("multipart/mixed", "none", 0, 0),
            parts |-> << DataPart(mime, data, 1), BodyPart("text/html", "good", 2, 2) >>]

(***************************************************************************)
(* Drivers.  Each takes one input and applies one operation to it.         *)
(***************************************************************************)
DecIdle ==
    /\ decData = << >>
    /\ decOrigin = NoResult
    /\ decResult = NoResult
    /\ decBody = NoResult

BodyIdle ==
    /\ bodyMsg = NilPayloadMessage
    /\ bodyPc = "idle"
    /\ bodyOut = NoResult

AttIdle ==
    /\ attMsg = NilPayloadMessage
    /\ attMsg0 = NilPayloadMessage
    /\ attPc = "idle"
    /\ attList = << >>
    /\ attList2 = << >>
    /\ attRef = ""
    /\ attFound = NilPart

ExIdle ==
    /\ exIn = NoResult
    /\ exPc = "idle"
    /\ exOut = NoResult

DxIdle ==
    /\ dxCall = << >>
    /\ fsFiles = {}
    /\ fsUnlinkOpen = TRUE

GmIdle ==
    /\ gmDrafts = << >>
    /\ gmCalls = << >>

FbIdle ==
    /\ fbIds = << >>
    /\ fbNext = 0
    /\ fbSeen = << >>
    /\ fbResults = << >>
    /\ fbOut = NoResult

CdIdle ==
    /\ cdCount = 0
    /\ cdLast = NoResult

FnIdle ==
    /\ fnIn = NoResult
    /\ fnPc = "idle"
    /\ fnCalls = << >>
    /\ fnOut = NoResult

SvcIdle == DxIdle /\ GmIdle /\ FbIdle /\ CdIdle /\ FnIdle

\* the four groups above at rest
CoreIdle == DecIdle /\ BodyIdle /\ AttIdle /\ ExIdle

TkIdle ==
    /\ tkFile = "absent"
    /\ tkValid = {}
    /\ tkLog = << >>

CcIdle == ccCall = << >>

NilServer == [none |-> TRUE]

HsIdle ==
    /\ hsPc = "idle"
    /\ gmailServer = NilServer
    /\ gmailAuthReady = FALSE
    /\ hsCb = << >>
    /\ hsLog = << >>

OwIdle ==
    /\ owPc = "idle"
    /\ owOut = NoResult
    /\ owServer = "idle"
    /\ owHandler = << >>

SrvIdle == TkIdle /\ CcIdle /\ HsIdle /\ OwIdle

\* ---- decodeEmailContent
DecInit ==
    /\ \/ \E b \in ByteStrings :
            \/ /\ decData = EncodeToString(URLEncoding, b)
               /\ decOrigin = [alphabet |-> "url", bytes |-> b]
            \/ /\ decData = EncodeToString(StdEncoding, b)
               /\ decOrigin = [alphabet |-> "std", bytes |-> b]
       \/ /\ decData \in RawStrings
          /\ decOrigin = [alphabet |-> "raw", bytes |-> << >>]
    /\ decResult = NoResult
    /\ decBody = NoResult

DecodeEmailContent ==
    /\ decOrigin # NoResult
    /\ decResult = NoResult
    /\ decResult' = decodeEmailContent(decData)
    /\ UNCHANGED <<decData, decOrigin, decBody, bodyVars, attVars, exVars, svcVars, srvVars>>

\* extractEmailBody on a message one of whose parts carries decData inline
ExtractEmailBodyOfData ==
    /\ decOrigin # NoResult
    /\ decBody = NoResult
    /\ \E place \in DataPlaces : \E mime \in DataMimeTypes : \E convErr \in BOOLEAN :
         LET msg == DataMessage(place, mime, decData)
         IN  decBody' = [msg |-> msg, convErr |-> convErr,
                         out |-> extractEmailBody(msg, convErr)]
    /\ UNCHANGED <<decData, decOrigin, decResult, bodyVars, attVars, exVars, svcVars, srvVars>>

\* ---- extractEmailBody
BodyInit ==
    /\ \/ bodyMsg = NilPayloadMessage
       \/ \E n \in 0..MaxParts : \E d \in Shapes(n) :
            \E a0 \in BodyTopOptions : \E a \in [1..n -> BodyPartOptions] :
               bodyMsg = BodyMessage(a0, d, a)
    /\ bodyPc = "ready"
    /\ bodyOut = NoResult

ExtractEmailBody ==
    /\ bodyPc = "ready"
    /\ \E convErr \in BOOLEAN :
         bodyOut' = extractEmailBody(bodyMsg, convErr)
    /\ bodyPc' = "done"
    /\ UNCHANGED <<bodyMsg, decVars, attVars, exVars, svcVars, srvVars>>

\* ---- extractAttachmentInfo (twice) and findAttachmentPart
AttInit ==
    /\ \/ attMsg = NilPayloadMessage
       \/ \E n \in 0..MaxParts : \E d \in Shapes(n) :
            \E a0 \in AttPartOptions : \E a \in [1..n -> AttPartOptions] :
               attMsg = AttMessage(a0, d, a)
    /\ attMsg0 = attMsg
    /\ attPc = "ready"
    /\ attList = << >>
    /\ attList2 = << >>
    /\ attRef = ""
    /\ attFound = NilPart

ExtractAttachmentInfo ==
    /\ attPc = "ready"
    /\ attList' = extractAttachmentInfo(attMsg)
    /\ attPc' = "listed"
    /\ UNCHANGED <<attMsg, attMsg0, attList2, attRef, attFound,
                   decVars, bodyVars, exVars, svcVars, srvVars>>

ExtractAttachmentInfoAgain ==
    /\ attPc = "listed"
    /\ attList2' = extractAttachmentInfo(attMsg)
    /\ attPc' = "relisted"
    /\ UNCHANGED <<attMsg, attMsg0, attList, attRef, attFound,
                   decVars, bodyVars, exVars, svcVars, srvVars>>

\* the callers hand in message.Payload.Parts and a nil result (with a nil
\* Payload that expression faults before any call is made)
FindAttachmentPart ==
    /\ attPc = "relisted"
    /\ attMsg.payload
    /\ \E ref \in AttachmentRefs :
         /\ attRef' = ref
         /\ attFound' = findAttachmentPart(attMsg.parts, TopParts(attMsg.parts), 1,
                                           ref, NilPart)
    /\ attPc' = "searched"
    /\ UNCHANGED <<attMsg, attMsg0, attList, attList2, decVars, bodyVars, exVars,
                   svcVars, srvVars>>

InitAttach == AttInit /\ DecIdle /\ BodyIdle /\ ExIdle /\ SvcIdle /\ SrvIdle
NextAttach == ExtractAttachmentInfo \/ ExtractAttachmentInfoAgain \/ FindAttachmentPart
SpecAttach == InitAttach /\ [][NextAttach]_vars

\* ---- extractTextFromBytes
\* the attachment part the bytes belong to
ExPart(mimeType, filename) ==
    [mimeType |-> mimeType, filename |-> filename, data |-> << >>,
     attachmentId |-> "a1", size |-> 1, depth |-> 1]

\* the bytes of an attachment part, the part's MimeType and Filename, and the
\* descriptor extractAttachmentsFromParts listed the part with
ExInit ==
    /\ \E data \in ExData : \E mimeType \in ExMimeTypes : \E filename \in ExFilenames :
         exIn = [data |-> data, mimeType |-> mimeType, filename |-> filename,
                 descriptor |-> AttachmentOf(ExPart(mimeType, filename))]
    /\ exPc = "ready"
    /\ exOut = NoResult

\* the libraries answer as the environment chooses; used tells which library
\* answered the call and how
ExtractTextFromBytes ==
    /\ exPc = "ready"
    /\ \E pdf \in PdfLibs : \E docx \in DocxLibs :
         LET r == extractTextFromBytes(exIn.data, exIn.mimeType, exIn.filename,
                                       [pdf |-> pdf, docx |-> docx])
         IN  exOut' = [text |-> r.text, err |-> r.err, via |-> r.via,
                       used |-> CASE r.via = "pdf"  -> [pdf |-> pdf]
                                  [] r.via = "docx" -> [docx |-> docx]
                                  [] OTHER          -> NoResult]
    /\ exPc' = "done"
    /\ UNCHANGED <<exIn, decVars, bodyVars, attVars, svcVars, srvVars>>

InitExtract == ExInit /\ DecIdle /\ BodyIdle /\ AttIdle /\ SvcIdle /\ SrvIdle
NextExtract == ExtractTextFromBytes
SpecExtract == InitExtract /\ [][NextExtract]_vars

\* ---- extractDOCXText, one statement at a time
DxStart(d) == [pc |-> "start", data |-> d, name |-> NoName, out |-> NoResult,
               held |-> FALSE]

DxInit ==
    /\ dxCall \in [Calls -> {DxStart(d) : d \in DocxPackages}]
    /\ fsFiles = {}
    /\ fsUnlinkOpen \in BOOLEAN

DocxLib(createErr, writeErr, readErr, content) ==
    [createErr |-> createErr, writeErr |-> writeErr, readErr |-> readErr,
     content |-> content]

\* os.CreateTemp taking the first name it draws, whether or not a file of
\* that name exists
NamesInUse_NotLookedAt == {}

NamesInUse == {f.name : f \in fsFiles}

\* os.CreateTemp: fails, or creates an empty file under a name no existing
\* file has; only then are the two deferred calls registered
DocxCreateTemp(c) ==
    /\ dxCall[c].pc = "start"
    /\ \/ /\ dxCall' = [dxCall EXCEPT
                           ![c].pc  = "returned",
                           ![c].out = extractDOCXText(dxCall[c].data,
                                          DocxLib(TRUE, FALSE, FALSE, << >>))]
          /\ UNCHANGED fsFiles
       \/ \E n \in TempNames \ NamesInUse :
            /\ dxCall' = [dxCall EXCEPT ![c].pc = "created", ![c].name = n]
            /\ fsFiles' = fsFiles \cup {[name |-> n, owner |-> c, data |-> EmptyFile]}
    /\ UNCHANGED <<fsUnlinkOpen, decVars, bodyVars, attVars, exVars, gmVars, fbVars,
                   cdVars, fnVars, srvVars>>

\* tempFile.Write and tempFile.Close: the write fails and the function
\* returns, or the file holds the attachment bytes
DocxWrite(c) ==
    /\ dxCall[c].pc = "created"
    /\ \/ /\ dxCall' = [dxCall EXCEPT
                           ![c].pc  = "deferred",
                           ![c].out = extractDOCXText(dxCall[c].data,
                                          DocxLib(FALSE, TRUE, FALSE, << >>))]
          /\ UNCHANGED fsFiles
       \/ /\ dxCall' = [dxCall EXCEPT ![c].pc = "written"]
          /\ fsFiles' = {IF f.name = dxCall[c].name
                         THEN [f EXCEPT !.data = dxCall[c].data] ELSE f : f \in fsFiles}
    /\ UNCHANGED <<fsUnlinkOpen, decVars, bodyVars, attVars, exVars, gmVars, fbVars,
                   cdVars, fnVars, srvVars>>

\* docx.ReadDocxFile(tempFile.Name()) and what follows it up to the return
\* statement: the package is read from the file of that name; when it opens,
\* the reader the library returns keeps the file open (it is never closed)
DocxReadFile(c) ==
    /\ dxCall[c].pc = "written"
    /\ \E f \in fsFiles :
         /\ f.name = dxCall[c].name
         /\ dxCall' = [dxCall EXCEPT
                          ![c].pc   = "deferred",
                          ![c].held = f.data.zip,
                          ![c].out  = extractDOCXText(dxCall[c].data,
                                          DocxLib(FALSE, FALSE, ~f.data.zip,
                                                  f.data.content))]
    /\ UNCHANGED <<fsFiles, fsUnlinkOpen, decVars, bodyVars, attVars, exVars,
                   gmVars, fbVars, cdVars, fnVars, srvVars>>

\* the deferred tempFile.Close() and os.Remove(tempFile.Name()), whose result
\* is dropped: the file of that name goes, unless it is still open and the
\* platform does not remove open files
DocxReturn(c) ==
    /\ dxCall[c].pc = "deferred"
    /\ dxCall' = [dxCall EXCEPT ![c].pc = "returned"]
    /\ \E collected \in BOOLEAN :
         \* the library's reader was already finalised by the garbage collector
         fsFiles' = IF dxCall[c].held /\ ~fsUnlinkOpen /\ ~collected THEN fsFiles
                    ELSE {f \in fsFiles : f.name # dxCall[c].name}
    /\ UNCHANGED <<fsUnlinkOpen, decVars, bodyVars, attVars, exVars, gmVars, fbVars,
                   cdVars, fnVars, srvVars>>

InitDocx == DxInit /\ CoreIdle /\ GmIdle /\ FbIdle /\ CdIdle /\ FnIdle /\ SrvIdle
NextDocx ==
    \E c \in Calls :
       DocxCreateTemp(c) \/ DocxWrite(c) \/ DocxReadFile(c) \/ DocxReturn(c)
SpecDocx == InitDocx /\ [][NextDocx]_vars

(***************************************************************************)
(* The mailbox.  A thread is a list of messages [id, headers, msg], msg    *)
(* being the gmail.Message as above; Threads.Get returns messages in the   *)
(* full format, each with its payload.  A draft is [id, message, threadId, *)
(* headers, msg]: message is FALSE for a nil Message.                      *)
(***************************************************************************)
Header(name, value) == [name |-> name, value |-> value]

\* the value a loop over the headers leaves in the variable for that name
\* when it assigns at every match (the last match stays)
LastHeader(headers, name) ==
    LET hits == SelectSeq(headers, LAMBDA h : h.name = name)
    IN  IF hits = << >> THEN "" ELSE hits[Len(hits)].value

\* ... and when it breaks at the first match
FirstHeader(headers, name) ==
    LET hits == SelectSeq(headers, LAMBDA h : h.name = name)
    IN  IF hits = << >> THEN "" ELSE hits[1].value

PlainMessage(id, subject, i) ==
    [id |-> id,
     headers |-> << Header("Subject", subject), Header("From", "alice") >>,
     msg |-> DataMessage("top", "text/plain", Payload("good", i))]

AttachmentMessage(id) ==
    [id |-> id,
     headers |-> << Header("From", "bob"), Header("Subject", "old"),
                    Header("Subject", "files"), Header("Message-ID", id) >>,
     msg |-> AttMessage([attachmentId |-> "", mimeType |-> "multipart/mixed",
                         filename |-> << >>],
                        << 1 >>,
                        << [attachmentId |-> "a1", mimeType |-> "application/pdf",
                            filename |-> RPdf] >>)]

\* thread ids a caller may pass; t4 is no thread of the mailbox
ThreadIds == {"t1", "t2", "t3", "t4"}

\* what Threads.Get returns for a thread id when it succeeds; t3 is a
\* thread without messages
ThreadOf(threadID) ==
    CASE threadID = "t1" -> << PlainMessage("m1", "hello", 1), AttachmentMessage("m2") >>
      [] threadID = "t2" -> << AttachmentMessage("m3") >>
      [] OTHER           -> << >>

KnownThreads == {"t1", "t2", "t3"}

\* longest list of thread ids handed to FetchEmailBodies
MaxIds == 3

DraftOf(id, threadID, i) ==
    [id |-> id, message |-> TRUE, threadId |-> threadID,
     headers |-> << Header("Subject", "Re: hello") >>,
     msg |-> DataMessage("top", "text/plain", Payload("good", i))]

\* a draft whose Message is nil
EmptyDraft(id) ==
    [id |-> id, message |-> FALSE, threadId |-> "", headers |-> << >>,
     msg |-> NilPayloadMessage]

\* mailboxes: no draft; a draft in t1; a draft in t2 after an empty draft
\* and a draft in t1; two drafts in t1
DraftBoxes ==
    { << >>,
      << DraftOf("d1", "t1", 3) >>,
      << EmptyDraft("d1"), DraftOf("d2", "t1", 3), DraftOf("d3", "t2", 4) >>,
      << DraftOf("d1", "t1", 3), DraftOf("d2", "t1", 4) >> }

SnippetLimit == 200
Ellipsis ==
    << 46, 46, 46 >>

\* a string cut to limit bytes, with the suffix appended when it was longer
Truncated(body, limit, suffix) ==
    IF Len(body) > limit THEN SubSeq(body, 1, limit) \o suffix ELSE body

\* draftInfo of one draft of the thread: its id, its thread, the first
\* Subject header and a snippet of its body (a draft whose message has no
\* payload keeps the empty subject and snippet)
draftInfo(fullDraft) ==
    [draftId  |-> fullDraft.id,
     threadId |-> fullDraft.threadId,
     subject  |-> IF fullDraft.msg.payload
                  THEN FirstHeader(fullDraft.headers, "Subject") ELSE "",
     snippet  |-> IF fullDraft.msg.payload
                  THEN Truncated(extractEmailBody(fullDraft.msg, FALSE).result,
                                 SnippetLimit, Ellipsis)
                  ELSE << >>]

\* the loop of getThreadDrafts over draftsList.Drafts; getErr holds the ids
\* of the drafts Drafts.Get fails on
RECURSIVE threadDraftsLoop(_, _, _, _, _)
threadDraftsLoop(box, k, threadID, getErr, drafts) ==
    IF k > Len(box) THEN drafts
    ELSE
      LET fullDraft == box[k]
      IN IF fullDraft.id \in getErr
         THEN threadDraftsLoop(box, k + 1, threadID, getErr, drafts)   \* continue
         ELSE threadDraftsLoop(box, k + 1, threadID, getErr,
                IF fullDraft.message /\ fullDraft.threadId = threadID
                THEN Append(drafts, draftInfo(fullDraft)) ELSE drafts)

\* getThreadDrafts: [err, drafts]; listErr says that Drafts.List fails
getThreadDrafts(box, threadID, listErr, getErr) ==
    IF listErr THEN [err |-> "failed to list drafts", drafts |-> << >>]
    ELSE [err |-> NoError, drafts |-> threadDraftsLoop(box, 1, threadID, getErr, << >>)]

DraftIds(box) == {box[k].id : k \in DOMAIN box}

\* ---- FetchEmailBodies
BodyLimit == 8000

\* "\n\n[Content truncated - email is longer than 8000 characters]"
BodyTruncated ==
    << 10, 10, 91, 67, 111, 110, 116, 101, 110, 116, 32, 116, 114, 117, 110,
       99, 97, 116, 101, 100, 32, 45, 32, 101, 109, 97, 105, 108, 32, 105,
       115, 32, 108, 111, 110, 103, 101, 114, 32, 116, 104, 97, 110, 32, 56,
       48, 48, 48, 32, 99, 104, 97, 114, 97, 99, 116, 101, 114, 115, 93 >>

\* the attachments of all messages of the thread, each with its messageId
RECURSIVE allAttachmentsLoop(_, _, _)
allAttachmentsLoop(messages, k, allAttachments) ==
    IF k > Len(messages) THEN allAttachments
    ELSE
      LET attachments == extractAttachmentInfo(messages[k].msg)
          tagged == [j \in DOMAIN attachments |->
                       [messageId |-> messages[k].id, attachment |-> attachments[j]]]
      IN allAttachmentsLoop(messages, k + 1, allAttachments \o tagged)

\* threadResult of one loop iteration (absent keys read as empty values)
ThreadResult(threadID, messages, existingDrafts) ==
    LET firstMessage == messages[1]
        fullBody == Truncated(extractEmailBody(firstMessage.msg, FALSE).result,
                              BodyLimit, BodyTruncated)
    IN  [threadId     |-> threadID,
         subject      |-> LastHeader(firstMessage.headers, "Subject"),
         from         |-> LastHeader(firstMessage.headers, "From"),
         fullBody     |-> fullBody,
         messageCount |-> Len(messages),
         attachments  |-> allAttachmentsLoop(messages, 1, << >>),
         drafts       |-> existingDrafts]

\* the same loop body giving up on a thread whose drafts cannot be listed
resultsAfterThread_DraftsRequired(results, threadID, fetchErr, messages, got) ==
    IF fetchErr THEN results
    ELSE IF Len(messages) = 0 THEN results
    ELSE IF got.err # NoError THEN results
    ELSE Append(results, ThreadResult(threadID, messages, got.drafts))

\* the results slice after the loop body for one thread id: fetchErr and
\* messages are what Threads.Get answered, got what getThreadDrafts returned
resultsAfterThread(results, threadID, fetchErr, messages, got) ==
    IF fetchErr THEN results                                \* continue
    ELSE IF Len(messages) = 0 THEN results                  \* continue
    ELSE LET existingDrafts == IF got.err # NoError THEN << >> ELSE got.drafts
         IN  Append(results, ThreadResult(threadID, messages, existingDrafts))

FbInit ==
    /\ gmDrafts \in DraftBoxes
    /\ gmCalls = << >>
    /\ fbIds \in UNION {[1..n -> ThreadIds] : n \in 0..MaxIds}
    /\ fbNext = 1
    /\ fbSeen = << >>
    /\ fbResults = << >>
    /\ fbOut = NoResult

\* one iteration of the loop over threadIDs: Threads.Get fails (always for
\* an id that is no thread), or returns the thread; then Drafts.List and
\* Drafts.Get answer as the environment chooses
FetchEmailBodiesThread ==
    /\ fbNext >= 1
    /\ fbNext <= Len(fbIds)
    /\ fbOut = NoResult
    /\ LET threadID == fbIds[fbNext]
       IN  \E fetchErr \in BOOLEAN : \E listErr \in BOOLEAN :
             \E getErr \in SUBSET DraftIds(gmDrafts) :
               /\ threadID \notin KnownThreads => fetchErr
               /\ fbSeen' = Append(fbSeen,
                              [err |-> fetchErr,
                               messageCount |-> IF fetchErr THEN 0
                                                ELSE Len(ThreadOf(threadID))])
               /\ fbResults' = resultsAfterThread(fbResults, threadID, fetchErr,
                                  ThreadOf(threadID),
                                  getThreadDrafts(gmDrafts, threadID, listErr, getErr))
    /\ fbNext' = fbNext + 1
    /\ UNCHANGED <<fbIds, fbOut, gmVars, dxVars, cdVars, fnVars,
                   decVars, bodyVars, attVars, exVars, srvVars>>

\* after the loop: json.MarshalIndent of results (strings, numbers and lists
\* of them, which always marshal) and the tool result
FetchEmailBodiesReturn ==
    /\ fbNext = Len(fbIds) + 1
    /\ fbOut = NoResult
    /\ fbOut' = [isError |-> FALSE, results |-> fbResults]
    /\ UNCHANGED <<fbIds, fbNext, fbSeen, fbResults, gmVars, dxVars, cdVars, fnVars,
                   decVars, bodyVars, attVars, exVars, srvVars>>

InitFetch == FbInit /\ CoreIdle /\ DxIdle /\ CdIdle /\ FnIdle /\ SrvIdle
NextFetch == FetchEmailBodiesThread \/ FetchEmailBodiesReturn
SpecFetch == InitFetch /\ [][NextFetch]_vars

\* ---- CreateDraft
\* CreateDraft calls in a row
MaxDraftCalls == 2

HasPrefix(s, prefix) ==
    Len(s) >= Len(prefix) /\ SubSeq(s, 1, Len(prefix)) = prefix

LowerRe == << 114, 101, 58 >>           \* "re:"
RePrefix == << 82, 101, 58, 32 >>       \* "Re: "

\* subjects a caller may pass: "hi", "RE: hi"
DraftSubjects == { << 104, 105 >>, << 82, 69, 58, 32, 104, 105 >> }

\* thread ids a caller may pass to CreateDraft ("" for none)
DraftThreadIds == {"", "t1", "t2"}

\* ids Drafts.Create may give a new draft
DraftIdPool == {"d1", "d2", "d3", "d4", "d5", "d6", "d7"}

\* the thread Gmail puts a draft in that was created without a thread id
NewThread == "t9"

\* the headers string of the raw message, as the list of its lines; thread
\* is [err, messages], what Threads.Get answered
DraftHeaders(to, subject, threadID, thread) ==
    LET replyTo == IF threadID # "" /\ ~thread.err /\ Len(thread.messages) > 0
                   THEN LET lastMessage == thread.messages[Len(thread.messages)]
                            messageID   == LastHeader(lastMessage.headers, "Message-ID")
                            references  == LastHeader(lastMessage.headers, "References")
                        IN  IF messageID # ""
                            THEN << Header("In-Reply-To", messageID),
                                    Header("References",
                                           IF references # ""
                                           THEN << references, messageID >>
                                           ELSE << messageID >>) >>
                            ELSE << >>
                   ELSE << >>
    IN  << Header("To", to) >> \o replyTo \o << Header("Subject", subject) >>

\* the draft Gmail stores for the raw message
StoredDraft(id, threadID, headers, body) ==
    [id |-> id, message |-> TRUE,
     threadId |-> IF threadID = "" THEN NewThread ELSE threadID,
     headers |-> headers,
     msg |-> DataMessage("top", "text/plain", EncodeToString(URLEncoding, body))]

ToolError(text) == [isError |-> TRUE, message |-> text, action |-> "", draftId |-> "",
                    subject |-> << >>]

\* CreateDraft once getThreadDrafts has answered got (it is not called for
\* a draft outside a thread): the update of the first draft found, or the
\* creation of a new one
draftAfterLookup(box, to, subject0, body, threadID, env, got) ==
    LET subject == IF threadID # "" /\ ~HasPrefix(ToLower(subject0), LowerRe)
                   THEN RePrefix \o subject0 ELSE subject0
        headers == DraftHeaders(to, subject, threadID, env.thread)
    IN  IF threadID # "" /\ got.err = NoError /\ Len(got.drafts) > 0
        THEN LET existingDraftID == got.drafts[1].draftId
             IN  IF env.opErr
                 THEN [box |-> box, calls |-> << >>, found |-> TRUE,
                       out |-> ToolError("Failed to update existing draft")]
                 ELSE [box |-> [k \in DOMAIN box |->
                                  IF box[k].id = existingDraftID
                                  THEN StoredDraft(existingDraftID, threadID, headers, body)
                                  ELSE box[k]],
                       calls |-> << [op |-> "update", id |-> existingDraftID] >>,
                       found |-> TRUE,
                       out |-> [isError |-> FALSE,
                                message |-> "Draft updated successfully (existing draft was overwritten)",
                                action |-> "updated", draftId |-> existingDraftID,
                                subject |-> subject]]
        ELSE IF env.opErr
             THEN [box |-> box, calls |-> << >>, found |-> FALSE,
                   out |-> ToolError("Failed to create draft")]
             ELSE LET created == StoredDraft(env.newId, threadID, headers, body)
                  IN  [box |-> IF env.first THEN << created >> \o box
                               ELSE Append(box, created),
                       calls |-> << [op |-> "create", id |-> env.newId] >>,
                       found |-> FALSE,
                       out |-> [isError |-> FALSE,
                                message |-> "Draft created successfully",
                                action |-> "created", draftId |-> env.newId,
                                subject |-> subject]]

\* CreateDraft: the drafts afterwards, the API calls made that change them
\* and the tool result.  env holds the answers of the API: thread (what
\* Threads.Get answered), listErr, getErr (drafts Drafts.Get fails on),
\* opErr (Drafts.Update or Drafts.Create fails), newId and first (the id and
\* the place in the listing Gmail gives a created draft)
CreateDraftOn(box, to, subject0, body, threadID, env) ==
    draftAfterLookup(box, to, subject0, body, threadID, env,
                     IF threadID # ""
                     THEN getThreadDrafts(box, threadID, env.listErr, env.getErr)
                     ELSE [err |-> "not called", drafts |-> << >>])

CdInit ==
    /\ gmDrafts \in DraftBoxes
    /\ gmCalls = << >>
    /\ cdCount = 0
    /\ cdLast = NoResult

\* what Threads.Get may answer for the thread id
ThreadAnswers(threadID) ==
    { [err |-> TRUE, messages |-> << >>] }
    \cup (IF threadID \in KnownThreads
          THEN { [err |-> FALSE, messages |-> ThreadOf(threadID)] } ELSE {})

\* Drafts.Get fails on no draft or on one draft of the thread (a failure on
\* a draft of another thread changes nothing)
GetFailures(box, threadID) ==
    { {} } \cup { {box[k].id} : k \in {j \in DOMAIN box : box[j].threadId = threadID} }

\* an id no draft of the mailbox has (ids are opaque: any will do)
FreshDraftId(box) == CHOOSE id \in DraftIdPool \ DraftIds(box) : TRUE

\* the body of the n-th call, different from the body of every other draft
DraftBody(n) == Content(4 + n)

CreateDraft ==
    /\ cdCount < MaxDraftCalls
    /\ DraftIds(gmDrafts) # DraftIdPool
    /\ \E subject \in DraftSubjects : \E threadID \in DraftThreadIds :
       \E thread \in ThreadAnswers(threadID) : \E listErr, opErr, first \in BOOLEAN :
       \E getErr \in GetFailures(gmDrafts, threadID) :
         \E r \in { CreateDraftOn(gmDrafts, "carol", subject, DraftBody(cdCount + 1),
                                   threadID,
                                   [thread |-> thread, listErr |-> listErr,
                                    getErr |-> getErr, opErr |-> opErr,
                                    newId |-> FreshDraftId(gmDrafts),
                                    first |-> first]) } :
             /\ gmDrafts' = r.box
             /\ gmCalls' = gmCalls \o r.calls
             /\ cdLast' = [threadID |-> threadID, body |-> DraftBody(cdCount + 1),
                           before |-> gmDrafts, found |-> r.found, out |-> r.out]
    /\ cdCount' = cdCount + 1
    /\ UNCHANGED <<fbVars, dxVars, fnVars, decVars, bodyVars, attVars, exVars, srvVars>>

InitDraft == CdInit /\ CoreIdle /\ DxIdle /\ FbIdle /\ FnIdle /\ SrvIdle
NextDraft == CreateDraft
SpecDraft == InitDraft /\ [][NextDraft]_vars

\* ---- ExtractAttachmentByFilename
\* file names a caller may ask for: "r.pdf", "unnamed_attachment", "x.txt"
\* (no attachment of the model's messages has the last one)
XTxt == << 120, 46, 116, 120, 116 >>

AskedFilenames == { RPdf, UnnamedAttachment, XTxt }

\* what Attachments.Get may return in attachment.Data: the base64url
\* encoding of "hi", and a string base64url rejects
FetchedData == { EncodeToString(URLEncoding, << 104, 105 >>), << "!" >> }

\* the libraries during the call: both read the bytes, or both refuse them
ByNameLibs ==
    { [pdf  |-> [openErr |-> FALSE, numPages |-> 1,
                 pages |-> << PageText(Hello) >>, rest |-> PageNull],
       docx |-> DocxLib(FALSE, FALSE, FALSE, BoundRuns)],
      [pdf  |-> [openErr |-> TRUE, numPages |-> 0, pages |-> << >>, rest |-> PageNull],
       docx |-> DocxLib(FALSE, FALSE, TRUE, << >>)] }

\* the top-level payload of the messages looked into: a container or an
\* attachment itself
ByNameTopOptions ==
    { [attachmentId |-> "",   mimeType |-> "multipart/mixed", filename |-> << >>],
      [attachmentId |-> "a2", mimeType |-> "application/pdf", filename |-> RPdf] }

\* the same loop keeping the last descriptor with the file name
RECURSIVE lookupByFilename_LastMatch(_, _, _)
lookupByFilename_LastMatch(allAttachments, filename, k) ==
    IF k > Len(allAttachments) THEN 0
    ELSE LET later == lookupByFilename_LastMatch(allAttachments, filename, k + 1)
         IN  IF later # 0 THEN later
             ELSE IF allAttachments[k].filename = filename THEN k ELSE 0

\* the loop over allAttachments from position k on: the position of the
\* descriptor it breaks at (0: none, targetAttachment stays nil)
RECURSIVE lookupByFilename(_, _, _)
lookupByFilename(allAttachments, filename, k) ==
    IF k > Len(allAttachments) THEN 0
    ELSE IF allAttachments[k].filename = filename THEN k
    ELSE lookupByFilename(allAttachments, filename, k + 1)

FilenameError(kind, availableFiles) ==
    [isError |-> TRUE, kind |-> kind, availableFiles |-> availableFiles,
     attachmentId |-> "", mimeType |-> "", textContent |-> << >>]

\* ExtractAttachmentByFilename: [out, calls].  env holds the answers of the
\* API and of the libraries: getErr (Messages.Get fails), fetchErr
\* (Attachments.Get fails), data (attachment.Data) and lib
ExtractAttachmentByFilenameOn(message, messageID, filename, env) ==
    IF env.getErr THEN [out |-> FilenameError("Failed to get message", << >>),
                        calls |-> << >>]
    ELSE
      LET allAttachments == extractAttachmentInfo(message)
          target         == lookupByFilename(allAttachments, filename, 1)
      IN
      IF target = 0
      THEN [out |-> FilenameError("Attachment with filename not found",
                       [k \in DOMAIN allAttachments |-> allAttachments[k].filename]),
            calls |-> << >>]
      ELSE
        LET attachmentID   == allAttachments[target].attachmentId
            attachmentPart == findAttachmentPart(message.parts, TopParts(message.parts),
                                                 1, attachmentID, NilPart)
            fetch          == << [op |-> "Attachments.Get", ref |-> attachmentID] >>
            decoded        == DecodeString(URLEncoding, env.data)
        IN
        IF attachmentPart = NilPart
        THEN [out |-> FilenameError("Could not find attachment part", << >>),
              calls |-> << >>]
        ELSE IF env.fetchErr
        THEN [out |-> FilenameError("Failed to get attachment data", << >>),
              calls |-> fetch]
        ELSE IF decoded.err
        THEN [out |-> FilenameError("Failed to decode attachment data", << >>),
              calls |-> fetch]
        ELSE
          LET part == message.parts[attachmentPart]
              r    == extractTextFromBytes(decoded.val, part.mimeType, part.filename,
                                           env.lib)
              extract == << [op |-> "extractTextFromBytes", ref |-> attachmentID] >>
          IN IF r.err # NoError
             THEN [out |-> FilenameError("Failed to extract text", << >>),
                   calls |-> fetch \o extract]
             ELSE [out |-> [isError |-> FALSE, kind |-> "", availableFiles |-> << >>,
                            attachmentId |-> attachmentID, mimeType |-> part.mimeType,
                            textContent |-> r.text],
                   calls |-> fetch \o extract]

FnInit ==
    /\ \E filename \in AskedFilenames :
         \/ fnIn = [message |-> NilPayloadMessage, messageID |-> "m1",
                    filename |-> filename]
         \/ \E n \in 0..MaxParts : \E d \in Shapes(n) :
              \E a0 \in ByNameTopOptions : \E a \in [1..n -> AttPartOptions] :
                 fnIn = [message |-> AttMessage(a0, d, a), messageID |-> "m1",
                         filename |-> filename]
    /\ fnPc = "ready"
    /\ fnCalls = << >>
    /\ fnOut = NoResult

ExtractAttachmentByFilename ==
    /\ fnPc = "ready"
    /\ \E getErr, fetchErr \in BOOLEAN : \E data \in FetchedData : \E lib \in ByNameLibs :
         LET r == ExtractAttachmentByFilenameOn(fnIn.message, fnIn.messageID,
                     fnIn.filename,
                     [getErr |-> getErr, fetchErr |-> fetchErr, data |-> data,
                      lib |-> lib])
         IN  /\ fnOut' = r.out
             /\ fnCalls' = r.calls
    /\ fnPc' = "done"
    /\ UNCHANGED <<fnIn, gmVars, fbVars, cdVars, dxVars,
                   decVars, bodyVars, attVars, exVars, srvVars>>

InitByName == FnInit /\ CoreIdle /\ DxIdle /\ GmIdle /\ FbIdle /\ CdIdle /\ SrvIdle
NextByName == ExtractAttachmentByFilename
SpecByName == InitByName /\ [][NextByName]_vars

(***************************************************************************)
(* CreateDraft calls for a thread running side by side.  A call is two     *)
(* round trips to the Gmail API that change or read the drafts: the lookup *)
(* of getThreadDrafts, then Drafts.Update or Drafts.Create; the handlers   *)
(* of the MCP server run in a goroutine per request and share no lock.     *)
(***************************************************************************)
\* CreateDraft calls in progress at a time
MaxRacers == 2

Racers == 1..MaxRacers

\* every thread has at most one draft
AtMostOneDraftPerThread(box) ==
    \A j, k \in DOMAIN box :
        (box[j].message /\ box[k].message /\ box[j].threadId = box[k].threadId)
            => j = k

CcInit ==
    /\ gmDrafts \in {box \in DraftBoxes : AtMostOneDraftPerThread(box)}
    /\ gmCalls = << >>
    /\ ccCall \in [Racers -> {[pc |-> "start", threadID |-> t, got |-> NoResult] :
                                 t \in DraftThreadIds \ {""}}]

\* the call's getThreadDrafts
RaceLookup(p) ==
    /\ ccCall[p].pc = "start"
    /\ \E listErr \in BOOLEAN : \E getErr \in GetFailures(gmDrafts, ccCall[p].threadID) :
         ccCall' = [ccCall EXCEPT
                       ![p].pc  = "looked",
                       ![p].got = getThreadDrafts(gmDrafts, ccCall[p].threadID,
                                                  listErr, getErr)]
    /\ UNCHANGED <<gmVars, tkVars, hsVars, owVars, dxVars, fbVars, cdVars, fnVars,
                   decVars, bodyVars, attVars, exVars>>

\* the call's Drafts.Update or Drafts.Create, on the mailbox as it is by then
RaceWrite(p) ==
    /\ ccCall[p].pc = "looked"
    /\ DraftIds(gmDrafts) # DraftIdPool
    /\ \E thread \in ThreadAnswers(ccCall[p].threadID) : \E opErr, first \in BOOLEAN :
       \E r \in { draftAfterLookup(gmDrafts, "carol", << 104, 105 >>, DraftBody(p),
                                   ccCall[p].threadID,
                                   [thread |-> thread, opErr |-> opErr,
                                    newId |-> FreshDraftId(gmDrafts), first |-> first],
                                   ccCall[p].got) } :
         /\ gmDrafts' = r.box
         /\ gmCalls' = gmCalls \o r.calls
    /\ ccCall' = [ccCall EXCEPT ![p].pc = "done"]
    /\ UNCHANGED <<tkVars, hsVars, owVars, dxVars, fbVars, cdVars, fnVars,
                   decVars, bodyVars, attVars, exVars>>

InitRace ==
    CcInit /\ CoreIdle /\ DxIdle /\ FbIdle /\ CdIdle /\ FnIdle /\ TkIdle /\ HsIdle /\ OwIdle
NextRace == \E p \in Racers : RaceLookup(p) \/ RaceWrite(p)
SpecRace == InitRace /\ [][NextRace]_vars

(***************************************************************************)
(* getToken.  token.json is "absent" (os.Open fails), "corrupt" (the JSON  *)
(* decoder fails) or holds a token; a token is named by its id.            *)
(***************************************************************************)
\* starts of the server (getToken calls) in a behaviour
MaxStarts == 2

TokenIds == {"t1", "t2", "t3"}

NoToken == ""

\* tokenFromFile(file)
tokenFromFile(file) ==
    IF file \in {"absent", "corrupt"} THEN [err |-> TRUE, token |-> NoToken]
    ELSE [err |-> FALSE, token |-> file]

\* isTokenValid(token): the Users.GetProfile call made with the token
\* succeeds; accepted says that the API accepts the token, apiErr that the
\* call fails for another reason
isTokenValid(token, accepted, apiErr) == token \in accepted /\ ~apiErr

\* what saveToken may meet: the file opens and the token is encoded, the
\* file does not open, the file opens (truncated) and the encoding fails
SaveOutcomes == {"ok", "openErr", "encodeErr"}

\* the same function never touching the file
saveToken_NeverWrites(file, token, save) == file

\* saveToken(path, token): the file afterwards; it returns nothing
saveToken(file, token, save) ==
    CASE save = "openErr"   -> file
      [] save = "encodeErr" -> "corrupt"
      [] OTHER              -> token

\* performOAuthFlow(config, tokenFile): web is what getTokenFromWeb returned
performOAuthFlow(file, web, save) ==
    IF web.err
    THEN [flow |-> TRUE, err |-> TRUE, token |-> NoToken, file |-> file]
    ELSE [flow |-> TRUE, err |-> FALSE, token |-> web.token,
          file |-> saveToken(file, web.token, save)]

\* getToken once tokenFromFile has answered loaded
tokenAfterLoad(file, loaded, accepted, apiErr, web, save) ==
    IF loaded.err THEN performOAuthFlow(file, web, save)
    ELSE IF ~isTokenValid(loaded.token, accepted, apiErr)
    THEN performOAuthFlow(file, web, save)
    ELSE [flow |-> FALSE, err |-> FALSE, token |-> loaded.token, file |-> file]

\* getToken(config): [flow, err, token, file]
getToken(file, accepted, apiErr, web, save) ==
    tokenAfterLoad(file, tokenFromFile(file), accepted, apiErr, web, save)

TkInit ==
    /\ tkFile \in {"absent", "corrupt"} \cup TokenIds
    /\ tkValid \in SUBSET TokenIds
    /\ tkLog = << >>

\* what getTokenFromWeb may return: an error, or a token the authorisation
\* server has just issued (one it never issued before)
WebAnswers ==
    { [err |-> TRUE, token |-> NoToken] }
    \cup { [err |-> FALSE, token |-> t] :
             t \in TokenIds \ (tkValid \cup {tkFile}
                               \cup {tkLog[k].token : k \in DOMAIN tkLog}) }

\* one start of the server: NewGmailServer calls getToken
GetToken ==
    /\ Len(tkLog) < MaxStarts
    /\ \E apiErr \in BOOLEAN : \E web \in WebAnswers : \E save \in SaveOutcomes :
       \E r \in { getToken(tkFile, tkValid, apiErr, web, save) } :
         /\ tkFile' = r.file
         /\ tkValid' = IF r.flow /\ ~r.err THEN tkValid \cup {r.token} ELSE tkValid
         /\ tkLog' = Append(tkLog,
                       [before |-> tkFile, accepted |-> tkValid, apiErr |-> apiErr,
                        web |-> web, save |-> save, flow |-> r.flow, err |-> r.err,
                        token |-> r.token, after |-> r.file])
    /\ UNCHANGED <<ccVars, hsVars, owVars, decVars, bodyVars, attVars, exVars, svcVars>>

\* between two starts the authorisation server revokes a token, or a token
\* expires
TokenExpires ==
    /\ \E t \in tkValid : tkValid' = tkValid \ {t}
    /\ UNCHANGED <<tkFile, tkLog, ccVars, hsVars, owVars, decVars, bodyVars, attVars,
                   exVars, svcVars>>

InitToken == TkInit /\ CoreIdle /\ SvcIdle /\ CcIdle /\ HsIdle /\ OwIdle
NextToken == GetToken \/ TokenExpires
SpecToken == InitToken /\ [][NextToken]_vars

(***************************************************************************)
(* The HTTP server variant (main.go:1-420).  main loads the cached token,  *)
(* then serves /authorize, /oauth2callback and /mcp; every request runs    *)
(* in a goroutine of its own, and the globals gmailServer and              *)
(* gmailAuthReady are read and written without synchronisation.            *)
(* tokenFromFile, isTokenValid and saveToken of this variant               *)
(* (main.go:76-85, 114-122, 66-74) have the text of the ones above.        *)
(***************************************************************************)
MaxCallbacks == 2   \* /oauth2callback requests
MaxRequests == 3    \* responses written before further /authorize and /mcp
                    \* requests are left out

Callbacks == 1..MaxCallbacks

\* the code parameter of a callback: missing, one the authorisation server
\* exchanges for a token, one it refuses
Codes == {"", "good", "bad"}

\* NewGmailServer(token): svcErr says that gmail.NewService fails
NewGmailServer(token, svcErr) ==
    IF svcErr THEN [err |-> TRUE, server |-> NilServer]
    ELSE [err |-> FALSE, server |-> [token |-> token]]

\* main, "Try loading token at startup": the error of NewGmailServer is
\* dropped and the flag set whatever it was
startupLoad(file, accepted, apiErr, svcErr) ==
    IF ~tokenFromFile(file).err
       /\ isTokenValid(tokenFromFile(file).token, accepted, apiErr)
    THEN [server |-> NewGmailServer(tokenFromFile(file).token, svcErr).server,
          ready |-> TRUE]
    ELSE [server |-> NilServer, ready |-> FALSE]

Response(path, status, result) ==
    [path |-> path, status |-> status, result |-> result]

\* the /mcp handler answering whatever the flag is
mcpHandler_NoCheck(ready) == Response("/mcp", 200, TRUE)

\* the /mcp handler, given the value of gmailAuthReady it reads
mcpHandler(ready) ==
    IF ~ready THEN Response("/mcp", 403, FALSE)
    ELSE Response("/mcp", 200, TRUE)

HsInit ==
    /\ hsPc = "boot"
    /\ gmailServer = NilServer
    /\ gmailAuthReady = FALSE
    /\ hsCb = [c \in Callbacks |->
                 [pc |-> "none", token |-> NoToken, server |-> FALSE, flag |-> FALSE]]
    /\ hsLog = << >>
    /\ tkFile \in {"absent", "corrupt", "t1"}     \* the cached token, if any, is t1
    /\ tkValid \in SUBSET {"t1"}
    /\ tkLog = << >>

HsOther == <<tkLog, ccVars, owVars, decVars, bodyVars, attVars, exVars, svcVars>>

\* main up to ListenAndServe
Startup ==
    /\ hsPc = "boot"
    /\ \E apiErr \in BOOLEAN : \E svcErr \in BOOLEAN :
       \E r \in { startupLoad(tkFile, tkValid, apiErr, svcErr) } :
         /\ gmailServer' = r.server
         /\ gmailAuthReady' = r.ready
    /\ hsPc' = "serving"
    /\ UNCHANGED <<hsCb, hsLog, tkFile, tkValid, HsOther>>

\* handleAuthorize
HandleAuthorize ==
    /\ hsPc = "serving"
    /\ Len(hsLog) < MaxRequests
    /\ hsLog' = Append(hsLog, Response("/authorize", 200, FALSE))
    /\ UNCHANGED <<hsPc, gmailServer, gmailAuthReady, hsCb, tkFile, tkValid, HsOther>>

\* the /mcp handler
HandleMcp ==
    /\ hsPc = "serving"
    /\ Len(hsLog) < MaxRequests
    /\ hsLog' = Append(hsLog, mcpHandler(gmailAuthReady))
    /\ UNCHANGED <<hsPc, gmailServer, gmailAuthReady, hsCb, tkFile, tkValid, HsOther>>

\* the tokens the authorisation server has not issued yet
FreshTokens ==
    TokenIds \ (tkValid \cup {tkFile} \cup {hsCb[c].token : c \in Callbacks})

\* the token an exchange issues: a new one (which new one makes no difference)
IssuedToken == CHOOSE t \in FreshTokens : TRUE

\* handleOAuth2Callback up to the return of oauthConfig.Exchange
CallbackExchange(c) ==
    /\ hsPc = "serving"
    /\ hsCb[c].pc = "none"
    /\ \A b \in Callbacks : b < c => hsCb[b].pc # "none"   \* numbered as they arrive
    /\ \E code \in Codes : \E exchErr \in BOOLEAN :
         \/ /\ code = ""
            /\ hsLog' = Append(hsLog, Response("/oauth2callback", 400, FALSE))
            /\ hsCb' = [hsCb EXCEPT ![c].pc = "done"]
            /\ UNCHANGED tkValid
         \/ /\ code # ""
            /\ code = "bad" \/ exchErr
            /\ hsLog' = Append(hsLog, Response("/oauth2callback", 500, FALSE))
            /\ hsCb' = [hsCb EXCEPT ![c].pc = "done"]
            /\ UNCHANGED tkValid
         \/ /\ code = "good" /\ ~exchErr
            /\ FreshTokens # {}
            /\ hsCb' = [hsCb EXCEPT ![c].pc = "exchanged", ![c].token = IssuedToken]
            /\ tkValid' = tkValid \cup {IssuedToken}
            /\ UNCHANGED hsLog
    /\ UNCHANGED <<hsPc, gmailServer, gmailAuthReady, tkFile, HsOther>>

\* saveToken(tokenFile, token)
CallbackSave(c) ==
    /\ hsCb[c].pc = "exchanged"
    /\ \E save \in SaveOutcomes : tkFile' = saveToken(tkFile, hsCb[c].token, save)
    /\ hsCb' = [hsCb EXCEPT ![c].pc = "saved"]
    /\ UNCHANGED <<hsPc, gmailServer, gmailAuthReady, hsLog, tkValid, HsOther>>

\* server, err := NewGmailServer(token) and the return on its error
CallbackNewServer(c) ==
    /\ hsCb[c].pc = "saved"
    /\ \E svcErr \in BOOLEAN :
         IF NewGmailServer(hsCb[c].token, svcErr).err
         THEN /\ hsLog' = Append(hsLog, Response("/oauth2callback", 500, FALSE))
              /\ hsCb' = [hsCb EXCEPT ![c].pc = "done"]
         ELSE /\ hsCb' = [hsCb EXCEPT ![c].pc = "created"]
              /\ UNCHANGED hsLog
    /\ UNCHANGED <<hsPc, gmailServer, gmailAuthReady, tkFile, tkValid, HsOther>>

\* gmailServer = server.  The two stores to the globals are not ordered by
\* any synchronisation, so the other goroutines may see them in either order.
CallbackStoreServer(c) ==
    /\ hsCb[c].pc = "created"
    /\ ~hsCb[c].server
    /\ gmailServer' = NewGmailServer(hsCb[c].token, FALSE).server
    /\ hsCb' = [hsCb EXCEPT ![c].server = TRUE]
    /\ UNCHANGED <<hsPc, gmailAuthReady, hsLog, tkFile, tkValid, HsOther>>

\* gmailAuthReady = true
CallbackStoreFlag(c) ==
    /\ hsCb[c].pc = "created"
    /\ ~hsCb[c].flag
    /\ gmailAuthReady' = TRUE
    /\ hsCb' = [hsCb EXCEPT ![c].flag = TRUE]
    /\ UNCHANGED <<hsPc, gmailServer, hsLog, tkFile, tkValid, HsOther>>

\* the success page
CallbackRespond(c) ==
    /\ hsCb[c].pc = "created"
    /\ hsCb[c].server /\ hsCb[c].flag
    /\ hsLog' = Append(hsLog, Response("/oauth2callback", 200, FALSE))
    /\ hsCb' = [hsCb EXCEPT ![c].pc = "done"]
    /\ UNCHANGED <<hsPc, gmailServer, gmailAuthReady, tkFile, tkValid, HsOther>>

InitHttp == HsInit /\ CoreIdle /\ SvcIdle /\ CcIdle /\ OwIdle

NextHttp ==
    \/ Startup
    \/ HandleAuthorize
    \/ HandleMcp
    \/ \E c \in Callbacks : CallbackExchange(c)
    \/ \E c \in Callbacks : CallbackSave(c)
    \/ \E c \in Callbacks : CallbackNewServer(c)
    \/ \E c \in Callbacks : CallbackStoreServer(c)
    \/ \E c \in Callbacks : CallbackStoreFlag(c)
    \/ \E c \in Callbacks : CallbackRespond(c)

SpecHttp == InitHttp /\ [][NextHttp]_vars

(***************************************************************************)
(* getTokenFromWeb (stdio variant): the flow starts a temporary server on  *)
(* :8080 whose handler passes the code of the callback to the flow over    *)
(* the unbuffered channel codeChan and errors over the unbuffered channel  *)
(* errChan; the flow waits in one select for a code, an error or the       *)
(* timer.  A send on an unbuffered channel completes when the flow         *)
(* receives it, so a send and its receive are one step.                    *)
(***************************************************************************)
MaxArrivals == 3    \* callback requests reaching the temporary server

Arrivals == 1..MaxArrivals

OwInit ==
    /\ owPc = "waiting"
    /\ owOut = NoResult
    /\ owServer = "starting"
    /\ owHandler = [h \in Arrivals |-> [pc |-> "none", code |-> ""]]

OwOther == <<tkVars, ccVars, hsVars, decVars, bodyVars, attVars, exVars, svcVars>>

\* a goroutine stands at a send that nobody has received yet
SendPending ==
    \/ owServer = "failing"
    \/ \E h \in Arrivals : owHandler[h].pc \in {"sendCode", "sendErr"}

\* go func() { server.ListenAndServe() ... }: the server listens, or it
\* fails to and the goroutine goes to its send on errChan
Listen ==
    /\ owServer = "starting"
    /\ owServer' \in {"listening", "failing"}
    /\ UNCHANGED <<owPc, owOut, owHandler, OwOther>>

\* the handler up to its send: on errChan without a code, on codeChan
\* (after the page is written) with one
CallbackArrives(h) ==
    /\ owServer = "listening"
    /\ owHandler[h].pc = "none"
    /\ \A g \in Arrivals : g < h => owHandler[g].pc # "none"
    /\ \E code \in {"", "good"} :
         owHandler' = [owHandler EXCEPT
                         ![h] = [pc |-> IF code = "" THEN "sendErr" ELSE "sendCode",
                                 code |-> code]]
    /\ UNCHANGED <<owPc, owOut, owServer, OwOther>>

\* case authCode = <-codeChan, with the send of handler h
ReceiveCode(h) ==
    /\ owPc = "waiting"
    /\ owHandler[h].pc = "sendCode"
    /\ owHandler' = [owHandler EXCEPT ![h].pc = "done"]
    /\ owPc' = "gotCode"
    /\ owOut' = [err |-> FALSE, code |-> owHandler[h].code]
    /\ UNCHANGED <<owServer, OwOther>>

\* case err := <-errChan, with the send of handler h: the flow returns
ReceiveHandlerErr(h) ==
    /\ owPc = "waiting"
    /\ owHandler[h].pc = "sendErr"
    /\ owHandler' = [owHandler EXCEPT ![h].pc = "done"]
    /\ owPc' = "returned"
    /\ owOut' = [err |-> TRUE, code |-> ""]
    /\ UNCHANGED <<owServer, OwOther>>

\* case err := <-errChan, with the send of the server goroutine
ReceiveListenErr ==
    /\ owPc = "waiting"
    /\ owServer = "failing"
    /\ owServer' = "failed"
    /\ owPc' = "returned"
    /\ owOut' = [err |-> TRUE, code |-> ""]
    /\ UNCHANGED <<owHandler, OwOther>>

\* case <-time.After(5 * time.Minute): the server has long been listening
\* and nothing was sent in time
Timeout ==
    /\ owPc = "waiting"
    /\ owServer = "listening"
    /\ ~SendPending
    /\ owPc' = "returned"
    /\ owOut' = [err |-> TRUE, code |-> ""]
    /\ UNCHANGED <<owServer, owHandler, OwOther>>

\* server.Shutdown(ctx): the listener is closed; the call waits at most
\* five seconds for the handlers still running and its error is dropped
Shutdown ==
    /\ owPc = "gotCode"
    /\ owServer' = "shutdown"
    /\ owPc' = "exchanging"
    /\ UNCHANGED <<owOut, owHandler, OwOther>>

\* config.Exchange and the return
Exchange ==
    /\ owPc = "exchanging"
    /\ \E exchErr \in BOOLEAN : owOut' = [err |-> exchErr, code |-> owOut.code]
    /\ owPc' = "returned"
    /\ UNCHANGED <<owServer, owHandler, OwOther>>

InitWeb == OwInit /\ CoreIdle /\ SvcIdle /\ TkIdle /\ CcIdle /\ HsIdle

NextWeb ==
    \/ Listen
    \/ \E h \in Arrivals : CallbackArrives(h)
    \/ \E h \in Arrivals : ReceiveCode(h)
    \/ \E h \in Arrivals : ReceiveHandlerErr(h)
    \/ ReceiveListenErr
    \/ Timeout
    \/ Shutdown
    \/ Exchange

SpecWeb == InitWeb /\ [][NextWeb]_vars

InitDecode == DecInit /\ BodyIdle /\ AttIdle /\ ExIdle /\ SvcIdle /\ SrvIdle
NextDecode == DecodeEmailContent \/ ExtractEmailBodyOfData
SpecDecode == InitDecode /\ [][NextDecode]_vars

InitBody == BodyInit /\ DecIdle /\ AttIdle /\ ExIdle /\ SvcIdle /\ SrvIdle
NextBody == ExtractEmailBody
SpecBody == InitBody /\ [][NextBody]_vars

(***************************************************************************)
(* Body resolution: what the message holds, read off the flat document     *)
(* order without the walker.                                               *)
(***************************************************************************)
\* the part carries an inline payload that decodes to some content
HasContent(part) ==
    /\ part.data # << >>
    /\ ~decodeEmailContent(part.data).err
    /\ decodeEmailContent(part.data).val # NoText

ContentOf(part) == decodeEmailContent(part.data).val

\* parts of the given kind with content, by position in document order
PartsOfKind(P, kind) ==
    {i \in 1..Len(P) : P[i].mimeType = kind /\ HasContent(P[i])}

Min(S) == CHOOSE m \in S : \A x \in S : m <= x

\* content of the first part of the kind in document order, if any
FirstOfKind(P, kind) ==
    IF PartsOfKind(P, kind) = {} THEN NoText
    ELSE ContentOf(P[Min(PartsOfKind(P, kind))])

\* every HTML content of the message, top level included
HtmlCandidates(msg) ==
    {ContentOf(msg.parts[i]) : i \in PartsOfKind(msg.parts, "text/html")}
    \cup (IF msg.top.mimeType = "text/html" /\ HasContent(msg.top)
          THEN {ContentOf(msg.top)} ELSE {})

TopLevelContent(msg, html) ==
    IF HasContent(msg.top) /\ ((msg.top.mimeType = "text/html") <=> html)
    THEN ContentOf(msg.top) ELSE NoText

BodyDone == bodyPc = "done" /\ bodyMsg.payload

\* C1: whenever the message holds some non-empty text/html content, at the
\* top level or in any part below it, the body returned is the HTML-to-text
\* normalisation of HTML content of the message, wherever the text/plain
\* parts stand.
C1_HtmlPreferred ==
    (BodyDone /\ HtmlCandidates(bodyMsg) # {}) =>
        \E h \in HtmlCandidates(bodyMsg) : \E convErr \in BOOLEAN :
            bodyOut.result = extractTextAndLinksFromHTML(h, convErr)

C3_FirstPerKind ==
    BodyDone =>
        /\ bodyOut.fromPlain = FirstOfKind(bodyMsg.parts, "text/plain")
        /\ bodyOut.fromHtml  = FirstOfKind(bodyMsg.parts, "text/html")

(***************************************************************************)
(* Attachments: what the message holds, read off the flat document order.  *)
(***************************************************************************)
\* the descriptors listed for the part: same reference and same size (the
\* size of a part is its position, so it names the part)
DescriptorsOf(list, part) ==
    {k \in DOMAIN list :
        list[k].attachmentId = part.attachmentId /\ list[k].size = part.size}

\* every part of the tree, the top-level payload first
AllParts(msg) == << msg.top >> \o msg.parts

AttListed == attPc \in {"listed", "relisted", "searched"} /\ attMsg.payload

\* C4: every part of the tree that carries an attachment reference, the
\* top-level payload included, yields exactly one descriptor, and a part
\* without a reference yields none.
C4_EveryAttachmentListed ==
    AttListed =>
        /\ \A i \in DOMAIN AllParts(attMsg) :
             LET part == AllParts(attMsg)[i]
             IN  part.attachmentId # ""
                   => Cardinality(DescriptorsOf(attList, part)) = 1
        /\ \A k \in DOMAIN attList : attList[k].attachmentId # ""
        /\ Len(attList) =
             Cardinality({i \in DOMAIN AllParts(attMsg) :
                             AllParts(attMsg)[i].attachmentId # ""})

\* C5: the descriptors come in strict document order (each describes a part
\* standing later in the message than the one before), a second run on the
\* same message returns the same sequence, and the message is as it was
\* fetched.
C5_DocumentOrder ==
    /\ AttListed =>
         /\ \A k \in DOMAIN attList :
              /\ attList[k].size \in DOMAIN attMsg.parts
              /\ attList[k] = AttachmentOf(attMsg.parts[attList[k].size])
         /\ \A j, k \in DOMAIN attList : j < k => attList[j].size < attList[k].size
    /\ attPc \in {"relisted", "searched"} => attList2 = attList
    /\ attMsg = attMsg0

\* two attachments listed, the second nested in a part that follows nothing
\* it could be confused with: a parent attachment and its child attachment
C5_Witness ==
    /\ attPc = "relisted"
    /\ Len(attList) >= 2
    /\ \E i \in DOMAIN attMsg.parts :
         /\ attMsg.parts[i].attachmentId # ""
         /\ \E j \in Range(Children(attMsg.parts, i)) :
              attMsg.parts[j].attachmentId # ""

\* parts handed to findAttachmentPart that carry the reference searched for
Matches(msg, ref) ==
    {i \in DOMAIN msg.parts : msg.parts[i].attachmentId = ref}

\* C6: findAttachmentPart returns the first part in document order whose
\* attachment reference is the one asked for, and nil only when no part
\* carries it.
C6_FirstMatch ==
    attPc = "searched" =>
        attFound = IF Matches(attMsg, attRef) = {} THEN NilPart
                   ELSE Min(Matches(attMsg, attRef))

(***************************************************************************)
(* Extraction dispatch: the extractor a declared kind and a file name call *)
(* for, written as a table.                                                *)
(***************************************************************************)
RecognisedKind(mimeType) == mimeType \in {MimePdf, MimeDocx, MimeText}

\* the file name ends in the suffix, letter case aside
EndsWithNoCase(filename, suffix) ==
    /\ Len(filename) >= Len(suffix)
    /\ \A i \in 1..Len(suffix) :
         ToLowerByte(filename[Len(filename) - Len(suffix) + i]) = ToLowerByte(suffix[i])

ExtractorByKind(mimeType) ==
    CASE mimeType = MimePdf  -> "pdf"
      [] mimeType = MimeDocx -> "docx"
      [] mimeType = MimeText -> "plain"

ExtractorBySuffix(filename) ==
    IF EndsWithNoCase(filename, DotPdf) THEN "pdf"
    ELSE IF EndsWithNoCase(filename, DotDocx) THEN "docx"
    ELSE IF EndsWithNoCase(filename, DotTxt) THEN "plain"
    ELSE "none"

ReportPDF == << 114, 101, 112, 111, 114, 116, 46, 80, 68, 70 >>     \* "report.PDF"

\* C7: a recognised declared kind selects its extractor whatever the file
\* name is; any other kind selects the extractor by the case-insensitive
\* file-name suffix .pdf, .docx or .txt.
C7_DispatchByKindThenSuffix ==
    exPc = "done" =>
        exOut.via = IF RecognisedKind(exIn.mimeType)
                    THEN ExtractorByKind(exIn.mimeType)
                    ELSE ExtractorBySuffix(exIn.filename)

\* kind application/octet-stream with report.PDF went to the PDF extractor
C7_Witness ==
    /\ exPc = "done"
    /\ exIn.mimeType = "application/octet-stream"
    /\ exIn.filename = ReportPDF
    /\ exOut.via = "pdf"

\* C8: the call fails with the unsupported-file-type error, as a returned
\* value and with no extractor invoked, exactly when the kind is none of the
\* three recognised ones and the file name ends in none of the three
\* suffixes.
C8_UnsupportedExactly ==
    exPc = "done" =>
        /\ (exOut.err = "unsupported file type")
             <=> (/\ ~RecognisedKind(exIn.mimeType)
                  /\ ExtractorBySuffix(exIn.filename) = "none")
        /\ exOut.err = "unsupported file type"
             => exOut.via = "none" /\ exOut.text = << >> /\ exOut.used = NoResult

\* an unrecognised kind with a file name of no known suffix was refused
C8_Witness ==
    /\ exPc = "done"
    /\ exIn.mimeType = "image/png"
    /\ exIn.filename # << >>
    /\ exOut.err = "unsupported file type"

\* C9: a call that returns no error returns a non-empty text.
C9_NeverEmptySuccess ==
    exPc = "done" => (exOut.err = NoError => exOut.text # << >>)

(***************************************************************************)
(* Decoding                                                                *)
(***************************************************************************)
DecDone == decResult # NoResult /\ decOrigin.alphabet \in {"url", "std"}

\* C10: decoding the URL-safe encoding of any bytes returns those bytes, and
\* so does decoding their standard encoding, also when the URL-safe decoder
\* rejects it.
C10_DecodeReturnsBytes ==
    DecDone => ~decResult.err /\ decResult.val = decOrigin.bytes

\* a standard encoding the URL-safe decoder rejects, decoded by the fallback
C10_Witness ==
    /\ DecDone
    /\ decOrigin.alphabet = "std"
    /\ DecodeString(URLEncoding, decData).err
    /\ Len(decOrigin.bytes) >= 3
    /\ ~decResult.err
    /\ decResult.val = decOrigin.bytes

\* both alphabets reject the encoded string
BothReject(data) ==
    DecodeString(URLEncoding, data).err /\ DecodeString(StdEncoding, data).err

\* the message with the inline payload of every part that neither alphabet
\* accepts taken away
WithoutPayload(part) == [part EXCEPT !.data = << >>]

WithoutRejectedPayloads(msg) ==
    [msg EXCEPT !.top   = IF BothReject(msg.top.data) THEN WithoutPayload(msg.top)
                          ELSE msg.top,
                !.parts = [i \in DOMAIN msg.parts |->
                             IF BothReject(msg.parts[i].data)
                             THEN WithoutPayload(msg.parts[i])
                             ELSE msg.parts[i]]]

PdfDone ==
    /\ exPc = "done"
    /\ exOut.via = "pdf"
    /\ ~exOut.used.pdf.openErr

\* the pages of the document that yield a text (which may be empty)
ReadablePages(lib) == {i \in 1..lib.numPages : PageAt(lib, i).kind = "text"}

\* the texts of the readable pages among the first n, each followed by a
\* blank line, in page order
RECURSIVE TextOfPages(_, _)
TextOfPages(lib, n) ==
    IF n = 0 THEN << >>
    ELSE TextOfPages(lib, n - 1)
         \o (IF n \in ReadablePages(lib) THEN PageAt(lib, n).text \o << 10, 10 >>
             ELSE << >>)

\* s occurs in t as a contiguous run
Contains(t, s) ==
    \E k \in 0..(Len(t) - Len(s)) : SubSeq(t, k + 1, k + Len(s)) = s

Fifty == << 53, 48 >>       \* "50"

\* C12: a successful PDF extraction returns the text of the pages 1..50 and
\* of no page beyond 50; for a document of N > 50 pages the text ends with a
\* notice that mentions N and 50, for N <= 50 it is the text of all N pages
\* with nothing appended.
C12_FiftyPageCap ==
    PdfDone /\ exOut.err = NoError =>
      LET lib == exOut.used.pdf
          N   == lib.numPages
      IN  IF N > 50
          THEN LET body   == TextOfPages(lib, 50)
                   notice == SubSeq(exOut.text, Len(body) + 1, Len(exOut.text))
               IN  /\ exOut.text = body \o notice
                   /\ Contains(notice, Digits(N))
                   /\ Contains(notice, Fifty)
                   /\ \A i \in 51..N : ~Contains(exOut.text, PageMark(i))
          ELSE exOut.text = TextOfPages(lib, N)

\* a 60-page document, each page with its own text, extracted with the notice
C12_Witness ==
    /\ PdfDone
    /\ exOut.err = NoError
    /\ exOut.used.pdf.numPages = 60
    /\ ReadablePages(exOut.used.pdf) = 1..60
    /\ Contains(exOut.text, PageMark(50))
    /\ ~Contains(exOut.text, PageMark(51))
    /\ Contains(exOut.text, Digits(60))

\* the pages the extraction processes: the first 50 at most
ProcessedPages(lib) ==
    1..(IF lib.numPages > 50 THEN 50 ELSE lib.numPages)

\* the processed pages that yield some text
PagesWithText(lib) ==
    {i \in ProcessedPages(lib) \cap ReadablePages(lib) : PageAt(lib, i).text # << >>}

\* C13: a null page and a page whose text extraction fails are skipped and
\* the pages after them are still processed; the extraction fails, with "no
\* text could be extracted", exactly when no processed page yields any text,
\* also when every page is readable and yields the empty text.
C13_FailsIffNoPageHasText ==
    PdfDone =>
      LET lib == exOut.used.pdf
      IN  /\ exOut.err = NoError =>
                \A i \in PagesWithText(lib) : Contains(exOut.text, PageAt(lib, i).text)
          /\ exOut.err = "no text could be extracted from PDF"
                <=> PagesWithText(lib) = {}
          /\ exOut.err \in {NoError, "no text could be extracted from PDF"}

(***************************************************************************)
(* DOCX extraction: what the package content holds, read off the token     *)
(* stream without the loop.                                                *)
(***************************************************************************)
\* the call went to extractDOCXText and the package opened
DocxDone ==
    /\ exPc = "done"
    /\ exOut.via = "docx"
    /\ ~exOut.used.docx.createErr
    /\ ~exOut.used.docx.writeErr
    /\ ~exOut.used.docx.readErr

\* the tokens the decoder reads: those before the first failure of Token()
ReadTokens(tokens) ==
    {k \in DOMAIN tokens : \A j \in 1..k : tokens[j].kind # "error"}

\* the token opens or closes a text run of the word-processing name space
IsTextRunTag(t, kind) ==
    t.kind = kind /\ t.local = "t" /\ t.space = WordprocessingML

\* character data token k lies inside a text run: a text run was opened
\* before it and not closed since
InsideTextRun(tokens, k) ==
    /\ k \in ReadTokens(tokens)
    /\ tokens[k].kind = "chars"
    /\ \E j \in 1..(k - 1) :
         /\ IsTextRunTag(tokens[j], "start")
         /\ \A m \in (j + 1)..(k - 1) : ~IsTextRunTag(tokens[m], "end")

\* the character data inside text runs, in document order, a space between
\* the pieces
RECURSIVE TextRunData(_, _)
TextRunData(tokens, k) ==
    IF k = 0 THEN << >>
    ELSE TextRunData(tokens, k - 1)
         \o (IF InsideTextRun(tokens, k) THEN << 32 >> \o tokens[k].src ELSE << >>)

\* every run of white space replaced by one space, none at either end
CollapseSpace(s) == JoinFields(s, FALSE)

StrippedText(tokens) == CollapseSpace(TextRunData(tokens, Len(tokens)))

HelloWorld == Hello \o << 32 >> \o World

\* the strip step decides the result of the extraction whenever it yields
\* some text from XML-shaped content, and then it is the character data of
\* the text runs with white space collapsed
StripIsTextRunData ==
    DocxDone /\ exOut.err = NoError =>
      LET tokens == exOut.used.docx.content
      IN  LooksLikeXML(RawContent(tokens)) /\ StrippedText(tokens) # << >>
            => exOut.text = StrippedText(tokens)

\* C14: the strip step returns the character data inside the <w:t> elements,
\* in document order, markup and other character data discarded and white
\* space collapsed to single spaces; the package content
\* <w:t>Hello</w:t><w:t>World</w:t> extracts to "Hello World".
C14_TextRunsStripped ==
    /\ StripIsTextRunData
    /\ DocxDone /\ exOut.used.docx.content = UnboundRuns
         => exOut.err = NoError /\ exOut.text = HelloWorld

\* C14 as the code has it: the same strip step, where <w:t> is a text run
\* only if its prefix is bound to the word-processing name space; then
\* <w:p xmlns:w="..."><w:t>Hello</w:t><w:t>World</w:t></w:p> extracts to
\* "Hello World", while <w:t>Hello</w:t><w:t>World</w:t> with the prefix left
\* unbound has no text run and is returned as it is.
C14_BoundTextRunsStripped ==
    /\ StripIsTextRunData
    /\ DocxDone /\ exOut.used.docx.content = BoundRuns
         => exOut.err = NoError /\ exOut.text = HelloWorld
    /\ DocxDone /\ exOut.used.docx.content = UnboundRuns
         => exOut.err = NoError /\ exOut.text = RawContent(UnboundRuns)

\* runs with white space inside and around them extracted to collapsed text
C14_Witness ==
    /\ DocxDone
    /\ exOut.err = NoError
    /\ exOut.text = StrippedText(exOut.used.docx.content)
    /\ \E k \in DOMAIN exOut.used.docx.content :
         /\ InsideTextRun(exOut.used.docx.content, k)
         /\ exOut.used.docx.content[k].src # TrimSpace(exOut.used.docx.content[k].src)
    /\ \E k \in DOMAIN exOut.used.docx.content :
         /\ exOut.used.docx.content[k].kind = "chars"
         /\ ~InsideTextRun(exOut.used.docx.content, k)
         /\ TrimSpace(exOut.used.docx.content[k].src) # << >>

\* the call went to extractDOCXText
DocxCalled == exPc = "done" /\ exOut.via = "docx"

\* the stripped text if the content is XML-shaped and the strip yields some
\* text, otherwise the raw content
StrippedOrRaw(tokens) ==
    IF LooksLikeXML(RawContent(tokens)) /\ StrippedText(tokens) # << >>
    THEN StrippedText(tokens)
    ELSE RawContent(tokens)

\* C15: when the package opens, DOCX extraction returns the stripped text if
\* the content is XML-shaped and the strip yields some text, and the raw
\* content otherwise; it fails only when the temporary file cannot be created
\* or written or the package cannot be opened.
C15_FailsOnlyUnopened ==
    DocxCalled =>
      IF DocxDone
      THEN exOut.err = NoError /\ exOut.text = StrippedOrRaw(exOut.used.docx.content)
      ELSE exOut.err # NoError

\* C15 as the code has it: a package that opens with empty content is a
\* failure too ("no text could be extracted from DOCX"); every other package
\* that opens yields the stripped text or else the raw content.
C15_FailsOnEmptyContentToo ==
    DocxCalled =>
      IF DocxDone /\ RawContent(exOut.used.docx.content) # << >>
      THEN exOut.err = NoError /\ exOut.text = StrippedOrRaw(exOut.used.docx.content)
      ELSE /\ exOut.err # NoError
           /\ DocxDone => exOut.err = "no text could be extracted from DOCX"

\* XML-shaped content without a text run, returned as it is
C15_Witness ==
    /\ DocxDone
    /\ LooksLikeXML(RawContent(exOut.used.docx.content))
    /\ StrippedText(exOut.used.docx.content) = << >>
    /\ exOut.err = NoError
    /\ exOut.text = RawContent(exOut.used.docx.content)
    /\ exOut.text # << >>

(***************************************************************************)
(* The temporary file of DOCX extraction                                   *)
(***************************************************************************)
\* the files call c created that still exist
FilesOf(c) == {f \in fsFiles : f.owner = c}

\* C16: whenever extractDOCXText has returned, with a text or with any of its
\* failures, no temporary file that call created exists any more.
C16_TempFileDeleted ==
    \A c \in DOMAIN dxCall : dxCall[c].pc = "returned" => FilesOf(c) = {}

(***************************************************************************)
(* The HTML normaliser                                                     *)
(***************************************************************************)
\* the message resolved to HTML content, which went through the normaliser
Normalised == decBody # NoResult /\ decBody.out.html # NoText

\* t is s without some white space at its start and at its end, and has
\* none left at either end
IsTrimOf(t, s) ==
    /\ \E a \in 0..Len(s) : \E b \in 0..(Len(s) - a) :
         /\ t = SubSeq(s, a + 1, Len(s) - b)
         /\ \A i \in 1..a : IsSpace(s[i])
         /\ \A i \in (Len(s) - b + 1)..Len(s) : IsSpace(s[i])
    /\ t # << >> => ~IsSpace(t[1]) /\ ~IsSpace(t[Len(t)])

\* C17: the HTML normaliser always returns a text: the HTML it was given,
\* unchanged, when the conversion fails, and the converted text without
\* leading and trailing white space when the conversion succeeds.
C17_NormaliserFallsBack ==
    Normalised =>
      /\ decBody.out.result \in Seq(0..255)
      /\ decBody.convErr => decBody.out.result = decBody.out.html
      /\ ~decBody.convErr =>
            IsTrimOf(decBody.out.result, ConvertString(decBody.out.html))

\* HTML that starts with white space, returned as it is after a failed
\* conversion
C17_Witness ==
    /\ Normalised
    /\ decBody.convErr
    /\ IsSpace(decBody.out.html[1])
    /\ decBody.out.result = decBody.out.html

(***************************************************************************)
(* FetchEmailBodies                                                        *)
(***************************************************************************)
\* positions of the thread ids that were fetched and have a message
FetchedWithMessages ==
    {k \in DOMAIN fbSeen : ~fbSeen[k].err /\ fbSeen[k].messageCount > 0}

\* the ids at the positions in S, in the order of the list
RECURSIVE IdsAt(_, _, _)
IdsAt(ids, S, k) ==
    IF k > Len(ids) THEN << >>
    ELSE (IF k \in S THEN << ids[k] >> ELSE << >>) \o IdsAt(ids, S, k + 1)

\* C18: FetchEmailBodies returns a result, not an error, that holds one
\* entry for every thread id whose thread was fetched and has a message, in
\* the order of the list, whatever happened to the other thread ids and
\* whether or not the drafts could be listed.
C18_BatchSurvivesFailures ==
    /\ fbNext > 0 =>
         [k \in DOMAIN fbResults |-> fbResults[k].threadId]
            = IdsAt(fbIds, FetchedWithMessages, 1)
    /\ fbOut # NoResult =>
         /\ ~fbOut.isError
         /\ Len(fbSeen) = Len(fbIds)
         /\ [k \in DOMAIN fbOut.results |-> fbOut.results[k].threadId]
               = IdsAt(fbIds, FetchedWithMessages, 1)
         /\ \A k \in DOMAIN fbOut.results :
               fbOut.results[k].messageCount = Len(ThreadOf(fbOut.results[k].threadId))

\* a batch in which one fetch failed and later ones succeeded
C18_Witness ==
    /\ fbOut # NoResult
    /\ Len(fbIds) = 3
    /\ fbSeen[1].err
    /\ ~fbSeen[2].err /\ fbSeen[2].messageCount > 0
    /\ ~fbSeen[3].err /\ fbSeen[3].messageCount > 0
    /\ fbIds[2] # fbIds[3]
    /\ Len(fbOut.results) = 2
    /\ fbOut.results[1].drafts = << >>
    /\ fbOut.results[2].drafts # << >>

(***************************************************************************)
(* CreateDraft                                                             *)
(***************************************************************************)
\* the drafts of the mailbox that belong to the thread
DraftsOfThread(box, threadID) ==
    {box[k].id : k \in {j \in DOMAIN box : box[j].message /\ box[j].threadId = threadID}}

\* the last call was made for a thread that had a draft
DraftExisted ==
    /\ cdLast # NoResult
    /\ cdLast.threadID # ""
    /\ DraftsOfThread(cdLast.before, cdLast.threadID) # {}

\* the draft with the id holds the body of the last call
HoldsBody(box, id) ==
    \E k \in DOMAIN box :
       /\ box[k].id = id
       /\ extractEmailBody(box[k].msg, FALSE).result = cdLast.body

\* C19: a CreateDraft call for a thread that has a draft creates no draft
\* and, when it succeeds, reports 'updated' with the id of a draft of that
\* thread, which then holds the new content; a draft is created, and
\* 'created' reported, only when the call names no thread or the thread has
\* no draft.
C19_UpdateOrCreate ==
    cdLast # NoResult =>
      /\ DraftExisted =>
            /\ DraftIds(gmDrafts) = DraftIds(cdLast.before)
            /\ ~cdLast.out.isError =>
                  /\ cdLast.out.action = "updated"
                  /\ cdLast.out.draftId \in DraftsOfThread(cdLast.before, cdLast.threadID)
                  /\ HoldsBody(gmDrafts, cdLast.out.draftId)
      /\ (cdLast.out.action = "created" \/ DraftIds(gmDrafts) # DraftIds(cdLast.before))
            => ~DraftExisted

(***************************************************************************)
(* ExtractAttachmentByFilename                                             *)
(***************************************************************************)
\* the call is over and the message was there
ByNameDone == fnPc = "done" /\ fnOut.kind # "Failed to get message"

\* positions in the descriptor list of the descriptors with the file name
DescriptorsNamed(list, filename) ==
    {k \in DOMAIN list : list[k].filename = filename}

\* C20: the call selects the first descriptor of the attachment list whose
\* file name is the requested one: it fetches that descriptor's attachment
\* reference, extracts text from what it fetched and reports that reference;
\* when no descriptor has the file name it answers with an error that lists
\* the file names of the list and makes no fetch and no extraction.
C20_FirstDescriptorByName ==
    ByNameDone =>
      LET list == extractAttachmentInfo(fnIn.message)
          hits == DescriptorsNamed(list, fnIn.filename)
      IN  IF hits = {}
          THEN /\ fnOut.isError
               /\ fnOut.kind = "Attachment with filename not found"
               /\ fnOut.availableFiles = [k \in DOMAIN list |-> list[k].filename]
               /\ fnCalls = << >>
          ELSE LET ref == list[Min(hits)].attachmentId
               IN  /\ fnCalls # << >>
                   /\ \A k \in DOMAIN fnCalls : fnCalls[k].ref = ref
                   /\ fnCalls[1].op = "Attachments.Get"
                   /\ Len(fnCalls) <= 2
                   /\ Len(fnCalls) = 2 => fnCalls[2].op = "extractTextFromBytes"
                   /\ ~fnOut.isError =>
                         /\ fnOut.attachmentId = ref
                         /\ Len(fnCalls) = 2
                   /\ fnOut.isError => fnOut.kind # "Attachment with filename not found"

\* two attachments with the requested file name and different references:
\* the text of the first one is returned
C20_Witness ==
    /\ ByNameDone
    /\ ~fnOut.isError
    /\ LET list == extractAttachmentInfo(fnIn.message)
           hits == DescriptorsNamed(list, fnIn.filename)
       IN  /\ Cardinality(hits) >= 2
           /\ \E k \in hits : list[k].attachmentId # list[Min(hits)].attachmentId
           /\ fnOut.attachmentId = list[Min(hits)].attachmentId

(***************************************************************************)
(* Body resolution without HTML                                            *)
(***************************************************************************)
\* every content the resolution may select as plain text: the content of a
\* text/plain part, or of a top-level payload that is not text/html
PlainCandidates(msg) ==
    {ContentOf(msg.parts[i]) : i \in PartsOfKind(msg.parts, "text/plain")}
    \cup (IF msg.top.mimeType # "text/html" /\ HasContent(msg.top)
          THEN {ContentOf(msg.top)} ELSE {})

\* C21: on a message that holds no text/html content, at the top level or in
\* any part below it, the body returned is the selected plain-text content as
\* it was decoded, a content the message holds and not its normalisation; it
\* is the empty string when the message holds no plain-text content either,
\* and when the message has no payload.
C21_PlainTextUnchanged ==
    /\ (bodyPc = "done" /\ ~bodyMsg.payload) => bodyOut.result = NoText
    /\ (BodyDone /\ HtmlCandidates(bodyMsg) = {}) =>
          /\ bodyOut.result = bodyOut.plain
          /\ bodyOut.result # NoText => bodyOut.result \in PlainCandidates(bodyMsg)
          /\ PlainCandidates(bodyMsg) = {} => bodyOut.result = NoText

\* a message without HTML whose nested text/plain content, which starts with
\* a blank, came back with the blank
C21_Witness ==
    /\ BodyDone
    /\ HtmlCandidates(bodyMsg) = {}
    /\ bodyOut.fromPlain # NoText
    /\ bodyOut.result = bodyOut.fromPlain
    /\ bodyOut.result[1] = 32

(***************************************************************************)
(* Concurrent DOCX extractions                                             *)
(***************************************************************************)
\* call c has created its temporary file and has not returned yet
InProgress(c) == dxCall[c].pc \in {"created", "written", "deferred"}

\* what call c returns when it reads the bytes it was handed itself
OwnOutcomes(c) ==
    { extractDOCXText(dxCall[c].data, DocxLib(TRUE, FALSE, FALSE, << >>)),
      extractDOCXText(dxCall[c].data, DocxLib(FALSE, TRUE, FALSE, << >>)),
      extractDOCXText(dxCall[c].data,
                      DocxLib(FALSE, FALSE, ~dxCall[c].data.zip,
                              dxCall[c].data.content)) }

\* names are apart, a call's file holds nothing but that call's bytes, and
\* what a call returned it read from its own bytes
NoCollision ==
    /\ \A c1, c2 \in DOMAIN dxCall :
         (c1 # c2 /\ InProgress(c1) /\ InProgress(c2))
            => dxCall[c1].name # dxCall[c2].name
    /\ \A c \in DOMAIN dxCall : InProgress(c) =>
         /\ \E f \in fsFiles : f.name = dxCall[c].name
         /\ \A f \in fsFiles : f.name = dxCall[c].name =>
              /\ f.owner = c
              /\ f.data = IF dxCall[c].pc = "created" THEN EmptyFile
                          ELSE IF dxCall[c].out # NoResult /\ ~dxCall[c].held
                                  /\ dxCall[c].out
                                       = extractDOCXText(dxCall[c].data,
                                            DocxLib(FALSE, TRUE, FALSE, << >>))
                                  /\ f.data = EmptyFile
                          THEN EmptyFile
                          ELSE dxCall[c].data
    /\ \A c \in DOMAIN dxCall :
         dxCall[c].out # NoResult => dxCall[c].out \in OwnOutcomes(c)

\* a file goes only when the call that created it returns
OnlyOwnFileDeleted ==
    \A f \in {g \in fsFiles : \A h \in fsFiles' : h.name # g.name} :
        /\ dxCall[f.owner].pc = "deferred"
        /\ dxCall'[f.owner].pc = "returned"
        /\ dxCall[f.owner].name = f.name

\* C22: under every interleaving of the extractDOCXText calls, the calls in
\* progress hold temporary files of different names, the file of a call
\* holds that call's bytes only, every call returns what it read from its own
\* bytes, and a file is removed only by the call that created it.
C22_NoTempFileCollision == []NoCollision /\ [][OnlyOwnFileDeleted]_vars

\* two calls on different attachments have both written their files, and one
\* of them has already read its own
C22_Witness ==
    \E c1, c2 \in DOMAIN dxCall :
        /\ c1 # c2
        /\ dxCall[c1].data # dxCall[c2].data
        /\ dxCall[c1].pc = "deferred" /\ dxCall[c1].held
        /\ dxCall[c2].pc = "written"
        /\ dxCall[c1].name # dxCall[c2].name

(***************************************************************************)
(* The cached token                                                        *)
(***************************************************************************)
\* the token file could be loaded, and the API call made with its token
\* succeeded
Loadable(call) == call.before \in TokenIds

CachedTokenValid(call) ==
    Loadable(call) /\ call.before \in call.accepted /\ ~call.apiErr

\* the OAuth flow starts exactly when the file does not load or its token
\* fails validation; a valid cached token is returned as it is; a later
\* start whose file holds a token the API accepts runs no flow
FlowOnlyWhenNeeded ==
    \A k \in DOMAIN tkLog :
        /\ tkLog[k].flow <=> ~CachedTokenValid(tkLog[k])
        /\ ~tkLog[k].flow =>
              /\ ~tkLog[k].err
              /\ tkLog[k].token = tkLog[k].before
              /\ tkLog[k].after = tkLog[k].before
        /\ (tkLog[k].flow /\ tkLog[k].web.err) =>
              tkLog[k].err /\ tkLog[k].after = tkLog[k].before
        /\ (tkLog[k].flow /\ ~tkLog[k].web.err) =>
              ~tkLog[k].err /\ tkLog[k].token = tkLog[k].web.token

Descendants(P, i) ==
    {j \in (i + 1)..Len(P) : \A m \in (i + 1)..j : P[m].depth > P[i].depth}

\* the slot the walker returned for the kind
SlotOf(kind) == IF kind = "text/html" THEN bodyOut.fromHtml ELSE bodyOut.fromPlain

\* C24: whatever happened at a part itself (its kind is neither of the two,
\* it has no inline payload, or its payload failed to decode), content of a
\* requested kind in a part below it is found: the slot of that kind is
\* filled, and it holds that content when no earlier part of the message
\* has content of the kind.
C24_ChildrenAlwaysVisited ==
    BodyDone =>
        \A kind \in {"text/plain", "text/html"} :
          \A i \in 1..Len(bodyMsg.parts) :
            \A j \in Descendants(bodyMsg.parts, i) :
               (bodyMsg.parts[j].mimeType = kind /\ HasContent(bodyMsg.parts[j])) =>
                  /\ SlotOf(kind) # NoText
                  /\ j = Min(PartsOfKind(bodyMsg.parts, kind))
                        => SlotOf(kind) = ContentOf(bodyMsg.parts[j])

(***************************************************************************)
(* The calls of the walk                                                   *)
(***************************************************************************)
\* the walk had decoded content of the kind before its p-th call
FoundBefore(kind, p) ==
    \E q \in 1..(p - 1) :
        /\ bodyOut.walk[q].op = "decode"
        /\ bodyMsg.parts[bodyOut.walk[q].part].mimeType = kind
        /\ HasContent(bodyMsg.parts[bodyOut.walk[q].part])

BothFoundBefore(p) == FoundBefore("text/plain", p) /\ FoundBefore("text/html", p)

\* the part's payload is there and does not decode
FailsToDecode(part) == part.data # << >> /\ decodeEmailContent(part.data).err

\* the part stands below a part whose payload does not decode
BelowFailure(P, i) ==
    \E a \in 1..(i - 1) : i \in Descendants(P, a) /\ FailsToDecode(P[a])

PartsOf(op) ==
    {bodyOut.walk[p].part : p \in {q \in DOMAIN bodyOut.walk : bodyOut.walk[q].op = op}}

\* C25 (as claimed): once the walk has found both the first plain-text and
\* the first HTML content, it decodes no further payload and descends into
\* no further child subtree.
C25_StopsWhenBothFound ==
    BodyDone => \A p \in DOMAIN bodyOut.walk : ~BothFoundBefore(p)

\* C25 (amended): the slots do not steer the walk.  It decodes the payload
\* of every part that has one and descends into the children of every part
\* that has some, in document order and each once, whether or not both slots
\* are filled (only the parts below a part whose payload fails to decode are
\* left out); a filled slot is kept: the slot of a kind holds the first
\* content of the kind the walk decoded.
C25_WalkIgnoresSlots ==
    BodyDone =>
        /\ PartsOf("decode")
             = {i \in 1..Len(bodyMsg.parts) :
                   bodyMsg.parts[i].data # << >> /\ ~BelowFailure(bodyMsg.parts, i)}
        /\ PartsOf("descend")
             = {i \in 1..Len(bodyMsg.parts) :
                   /\ Descendants(bodyMsg.parts, i) # {}
                   /\ ~FailsToDecode(bodyMsg.parts[i])
                   /\ ~BelowFailure(bodyMsg.parts, i)}
        /\ \A p, q \in DOMAIN bodyOut.walk :
             (p < q /\ bodyOut.walk[p].op = bodyOut.walk[q].op)
                => bodyOut.walk[p].part < bodyOut.walk[q].part
        /\ \A kind \in {"text/plain", "text/html"} :
             \A p \in DOMAIN bodyOut.walk :
               (/\ bodyOut.walk[p].op = "decode"
                /\ bodyMsg.parts[bodyOut.walk[p].part].mimeType = kind
                /\ HasContent(bodyMsg.parts[bodyOut.walk[p].part])
                /\ ~FoundBefore(kind, p))
                  => SlotOf(kind) = ContentOf(bodyMsg.parts[bodyOut.walk[p].part])

\* the walk decoded a payload and descended into a subtree after both slots
\* had been filled
C25_Witness ==
    /\ BodyDone
    /\ \E p, q \in DOMAIN bodyOut.walk :
         /\ BothFoundBefore(p) /\ bodyOut.walk[p].op = "decode"
         /\ BothFoundBefore(q) /\ bodyOut.walk[q].op = "descend"

(***************************************************************************)
(* The extractable flag                                                    *)
(***************************************************************************)
\* C26: the descriptor of an attachment part is marked extractable exactly
\* when extractTextFromBytes, called with the part's MIME type and file name,
\* selects an extractor instead of failing with "unsupported file type"; a
\* part without file name is listed under "unnamed_attachment" and judged
\* the same way.
C26_FlagAgreesWithDispatch ==
    exPc = "done" =>
        /\ exIn.descriptor.mimeType = exIn.mimeType
        /\ exIn.descriptor.filename
             = (IF exIn.filename = << >> THEN UnnamedAttachment ELSE exIn.filename)
        /\ exIn.descriptor.extractable
             <=> ~(exOut.via = "none" /\ exOut.err = "unsupported file type")

\* a part of unrecognised kind with a .txt file name: flagged, and passed
\* through as plain text
C26_Witness ==
    /\ exPc = "done"
    /\ exIn.mimeType = "application/octet-stream"
    /\ HasSuffix(exIn.filename, DotTxt)
    /\ exIn.descriptor.extractable
    /\ exOut.via = "plain"

(***************************************************************************)
(* One draft per thread                                                    *)
(***************************************************************************)
\* C27: starting from a mailbox in which every thread has at most one draft,
\* after any CreateDraft calls that carry a thread id, whatever their
\* interleaving and whether or not the lookup of the existing drafts fails,
\* every thread still has at most one draft.
C27_AtMostOneDraftPerThread == AtMostOneDraftPerThread(gmDrafts)

(***************************************************************************)
(* C28.  In the HTTP server variant, whenever gmailAuthReady is true the   *)
(* global gmailServer is a handle (not nil) built from a token the         *)
(* authorisation server accepts.                                           *)
(***************************************************************************)
C28_ReadyImpliesServer ==
    gmailAuthReady =>
        /\ gmailServer # NilServer
        /\ gmailServer.token \in tkValid

(***************************************************************************)
(* C29.  Every /mcp request handled while gmailAuthReady is false is       *)
(* answered 403 with no MCP result; gmailAuthReady becomes true only in    *)
(* the startup of main with a cached token the API accepts, or in a        *)
(* callback whose exchange and NewGmailServer both succeeded; once true    *)
(* it stays true.                                                          *)
(***************************************************************************)
Answered == Len(hsLog') = Len(hsLog) + 1

McpForbiddenUntilReady ==
    (Answered /\ hsLog'[Len(hsLog')].path = "/mcp" /\ ~gmailAuthReady)
        => /\ hsLog'[Len(hsLog')].status = 403
           /\ ~hsLog'[Len(hsLog')].result

ReadyOnlyByAuthorisation ==
    (~gmailAuthReady /\ gmailAuthReady')
        => \/ hsPc = "boot" /\ tkFile \in tkValid
           \/ \E c \in Callbacks :
                /\ hsCb[c].pc = "created"
                /\ hsCb[c].token \in tkValid
                /\ hsCb'[c].flag /\ ~hsCb[c].flag

ReadyNeverReset == gmailAuthReady => gmailAuthReady'

C29_McpOnlyAfterAuthorisation ==
    [][McpForbiddenUntilReady /\ ReadyOnlyByAuthorisation /\ ReadyNeverReset]_vars

\* /mcp was refused, then a callback succeeded, then /mcp was served
C29_Witness ==
    /\ hsPc = "serving"
    /\ \E j \in DOMAIN hsLog : \E k \in DOMAIN hsLog : \E l \in DOMAIN hsLog :
         /\ j < k /\ k < l
         /\ hsLog[j] = Response("/mcp", 403, FALSE)
         /\ hsLog[k] = Response("/oauth2callback", 200, FALSE)
         /\ hsLog[l] = Response("/mcp", 200, TRUE)

(***************************************************************************)
(* C30.  When getTokenFromWeb has returned, no goroutine stands at a send  *)
(* on codeChan or errChan (the flow was their only receiver, so such a     *)
(* send is never received) and the temporary server no longer listens.     *)
(***************************************************************************)
C30_NothingOutlivesTheFlow ==
    owPc = "returned" =>
        /\ ~SendPending
        /\ owServer \in {"shutdown", "failed"}

====
